---- MODULE Spec2Model ----
(***************************************************************************)
(* Invoice back office (scrpti/facturia): the invoice write path          *)
(* (routes/invoices.js, inlined in src/routes/analytics.js from line 650), *)
(* the transaction helper (config/database.js, inlined in src/server.js    *)
(* from line 95) and the reporting queries of routes/analytics.js.         *)
(*                                                                         *)
(* Time is counted in whole days.  The calendar is uniform: a month is     *)
(* MonthDays days and a year is twelve months, so that INTERVAL '1 year'   *)
(* and INTERVAL '12 months' agree as they do in PostgreSQL.                *)
(***************************************************************************)
EXTENDS Integers, Sequences, FiniteSets, TLC

VARIABLES
  invoices,   \* committed rows of table invoices
  suppliers,  \* committed rows of table suppliers
  now,        \* the clock, NOW() in days
  nextId,     \* the sequence behind invoices.id
  pc,         \* position of each create request inside router.post('/')
  req,        \* the validated body (value) of each create request
  tx,         \* the uncommitted writes of each request's transaction
  resp,       \* the last response sent to a caller
  created     \* history: per (name, company) the committed creations

vars == <<invoices, suppliers, now, nextId, pc, req, tx, resp, created>>

----------------------------------------------------------------------------
(* Bounds and input domains *)

MaxNow == 1          \* the clock of the write path stops here
MaxId == 2           \* at most this many INSERTs draw an id

NULL == -1           \* SQL NULL / undefined for dates and numbers
ABSENT == "absent"   \* undefined for strings

Procs == {"p1", "p2"}
SeqProcs == {"p1"}

Companies == {"c1", "c2"}
SupplierNames == {"s1", "s2"}
Pairs == SupplierNames \X Companies
Amounts == {50, 100}
BadAmounts == {0, -5}
Statuses == {"pending", "confirmed", "paid"}
BadStatuses == {"archived"}
InvoiceDates == {NULL, 0}
DueDates == {NULL}
Categories == {ABSENT, "k1"}

NoTx == [state |-> "none", start |-> NULL, inv |-> {}, sup |-> {}]
NoReq == [company_phone |-> ABSENT]
NoResp == [op |-> "none", code |-> 0]

----------------------------------------------------------------------------
(* Arithmetic helpers *)

RECURSIVE SumAmount(_)
SumAmount(rows) ==
  IF rows = {} THEN 0
  ELSE LET r == CHOOSE x \in rows : TRUE
       IN r.amount + SumAmount(rows \ {r})

RECURSIVE SumTotalInvoices(_)
SumTotalInvoices(rows) ==
  IF rows = {} THEN 0
  ELSE LET r == CHOOSE x \in rows : TRUE
       IN r.total_invoices + SumTotalInvoices(rows \ {r})

RECURSIVE SumTotalAmount(_)
SumTotalAmount(rows) ==
  IF rows = {} THEN 0
  ELSE LET r == CHOOSE x \in rows : TRUE
       IN r.total_amount + SumTotalAmount(rows \ {r})

----------------------------------------------------------------------------
(* Joi schemas.  validate() runs with the default abortEarly: true, so the  *)
(* error carries the first failing key only, in schema key order.          *)

\* invoiceSchema: the keys that fail, in schema order
InvoiceSchemaErrors(body) ==
  (IF body.company_phone = ABSENT THEN <<"company_phone">> ELSE <<>>) \o
  (IF body.supplier_name = ABSENT THEN <<"supplier_name">> ELSE <<>>) \o
  (IF body.amount = NULL \/ body.amount <= 0 THEN <<"amount">> ELSE <<>>) \o
  (IF body.status # ABSENT /\ body.status \notin Statuses
     THEN <<"status">> ELSE <<>>)

\* invoiceSchema.validate(req.body).error.details
invoiceSchema(body) ==
  LET errs == InvoiceSchemaErrors(body)
  IN IF errs = <<>> THEN <<>> ELSE <<Head(errs)>>

\* invoiceSchema.validate(req.body).value: defaults applied
InvoiceValue(body) ==
  [body EXCEPT !.status = IF body.status = ABSENT THEN "pending" ELSE body.status]

\* updateSchema: the keys that fail, in schema order; .min(1) fails the object
UpdateSchemaErrors(body) ==
  (IF body.amount # NULL /\ body.amount <= 0 THEN <<"amount">> ELSE <<>>) \o
  (IF body.status # ABSENT /\ body.status \notin Statuses
     THEN <<"status">> ELSE <<>>) \o
  (IF body.supplier_name = ABSENT /\ body.amount = NULL /\ body.status = ABSENT
     THEN <<"object.min">> ELSE <<>>)

\* updateSchema with amount: Joi.number()
updateSchemaAnyAmount(body) ==
  LET errs == SelectSeq(UpdateSchemaErrors(body), LAMBDA e : e # "amount")
  IN IF errs = <<>> THEN <<>> ELSE <<Head(errs)>>

\* updateSchema.validate(req.body).error.details
updateSchema(body) ==
  LET errs == UpdateSchemaErrors(body)
  IN IF errs = <<>> THEN <<>> ELSE <<Head(errs)>>

----------------------------------------------------------------------------
(* The store *)

\* the rows of a suppliers table under the key (name, company_phone)
SupplierRowsIn(tbl, name, company) ==
  {s \in tbl : s.name = name /\ s.company_phone = company}

SupplierRow(name, company) == SupplierRowsIn(suppliers, name, company)

\* INSERT INTO invoices (...) VALUES (..., NOW()) RETURNING *; inside a
\* transaction NOW() is the time of its start
NewInvoiceRow(value, id, start) ==
  [id |-> id,
   company_phone |-> value.company_phone,
   supplier_name |-> value.supplier_name,
   amount |-> value.amount,
   status |-> value.status,
   invoice_date |-> value.invoice_date,
   due_date |-> value.due_date,
   category |-> value.category,
   created_at |-> start,
   updated_at |-> NULL,
   confirmed_at |-> NULL]

\* the upsert with a first row that does not count the invoice that made it
UpsertedSupplierFromZero(value) ==
  LET old == SupplierRow(value.supplier_name, value.company_phone)
      date == IF value.invoice_date # NULL THEN value.invoice_date ELSE now
  IN IF old = {}
       THEN [name |-> value.supplier_name,
             company_phone |-> value.company_phone,
             total_invoices |-> 0,
             total_amount |-> 0,
             last_invoice_date |-> date]
       ELSE LET s == CHOOSE x \in old : TRUE
            IN [s EXCEPT !.total_invoices = s.total_invoices + 1,
                         !.total_amount = s.total_amount + value.amount,
                         !.last_invoice_date = date]

\* the upsert with DO UPDATE SET total_amount = EXCLUDED.total_amount
UpsertedSupplierOverwrite(value) ==
  LET old == SupplierRow(value.supplier_name, value.company_phone)
      date == IF value.invoice_date # NULL THEN value.invoice_date ELSE now
  IN IF old = {}
       THEN [name |-> value.supplier_name,
             company_phone |-> value.company_phone,
             total_invoices |-> 1,
             total_amount |-> value.amount,
             last_invoice_date |-> date]
       ELSE LET s == CHOOSE x \in old : TRUE
            IN [s EXCEPT !.total_invoices = s.total_invoices + 1,
                         !.total_amount = value.amount,
                         !.last_invoice_date = date]

\* INSERT INTO suppliers ... ON CONFLICT (name, company_phone) DO UPDATE:
\* the row the statement leaves for the pair of value
UpsertedSupplier(value) ==
  LET old == SupplierRow(value.supplier_name, value.company_phone)
      date == IF value.invoice_date # NULL THEN value.invoice_date ELSE now
  IN IF old = {}
       THEN [name |-> value.supplier_name,
             company_phone |-> value.company_phone,
             total_invoices |-> 1,
             total_amount |-> value.amount,
             last_invoice_date |-> date]
       ELSE LET s == CHOOSE x \in old : TRUE
            IN [s EXCEPT !.total_invoices = s.total_invoices + 1,
                         !.total_amount = s.total_amount + value.amount,
                         !.last_invoice_date = date]

\* the suppliers table once the rows written replace the rows of their pairs
WithSupplier(rows) ==
  {s \in suppliers :
     \A r \in rows : ~(r.name = s.name /\ r.company_phone = s.company_phone)}
  \cup rows

----------------------------------------------------------------------------
Init ==
  /\ invoices = {}
  /\ suppliers = {}
  /\ now = 0
  /\ nextId = 1
  /\ pc = [p \in Procs |-> "idle"]
  /\ req = [p \in Procs |-> NoReq]
  /\ tx = [p \in Procs |-> NoTx]
  /\ resp = NoResp
  /\ created = [k \in Pairs |-> [n |-> 0, sum |-> 0]]

\* the clock advances
Tick ==
  /\ now < MaxNow
  /\ now' = now + 1
  /\ UNCHANGED <<invoices, suppliers, nextId, pc, req, tx, resp, created>>

----------------------------------------------------------------------------
(* POST /api/invoices inside transaction(callback) *)

\* the handler up to the call of transaction(): validation.  A refusal is
\* kept with the body it refuses.
CreateReceive(p, body) ==
  /\ pc[p] = "idle"
  /\ IF invoiceSchema(body) # <<>>
       THEN /\ resp' = [op |-> "create", code |-> 400,
                        details |-> invoiceSchema(body), body |-> body]
            /\ UNCHANGED <<pc, req>>
       ELSE /\ pc' = [pc EXCEPT ![p] = "connect"]
            /\ req' = [req EXCEPT ![p] = InvoiceValue(body)]
            /\ UNCHANGED resp
  /\ UNCHANGED <<invoices, suppliers, now, nextId, tx, created>>

\* the catch of the handler: the generic failure
CreateFailure == [op |-> "create", code |-> 500]

\* const client = await pool.connect()
Connect(p, ok) ==
  /\ pc[p] = "connect"
  /\ IF ok
       THEN /\ pc' = [pc EXCEPT ![p] = "begin"]
            /\ UNCHANGED <<req, resp>>
       ELSE /\ pc' = [pc EXCEPT ![p] = "idle"]
            /\ req' = [req EXCEPT ![p] = NoReq]
            /\ resp' = CreateFailure
  /\ UNCHANGED <<invoices, suppliers, now, nextId, tx, created>>

\* await client.query('BEGIN')
Begin(p, ok) ==
  /\ pc[p] = "begin"
  /\ IF ok
       THEN /\ pc' = [pc EXCEPT ![p] = "insert"]
            /\ tx' = [tx EXCEPT ![p].start = now, ![p].state = "open"]
       ELSE /\ pc' = [pc EXCEPT ![p] = "rollback"]
            /\ UNCHANGED tx
  /\ UNCHANGED <<invoices, suppliers, now, nextId, req, resp, created>>

\* the INSERT run by query() on the pool instead of the transaction's client
InsertInvoiceOnPool(p) ==
  /\ tx' = [tx EXCEPT ![p].inv = {NewInvoiceRow(req[p], nextId, tx[p].start)}]
  /\ invoices' = invoices \cup {NewInvoiceRow(req[p], nextId, tx[p].start)}

\* the INSERT INTO invoices of the callback runs on the transaction's client:
\* the row stays private to the transaction
InsertInvoiceOk(p) ==
  /\ tx' = [tx EXCEPT ![p].inv = {NewInvoiceRow(req[p], nextId, tx[p].start)}]
  /\ UNCHANGED invoices

\* await client.query(INSERT INTO invoices ...); the sequence is not
\* transactional: a drawn id is never given back
InsertInvoice(p, ok) ==
  /\ pc[p] = "insert"
  /\ nextId <= MaxId
  /\ IF ok
       THEN /\ InsertInvoiceOk(p)
            /\ nextId' = nextId + 1
            /\ pc' = [pc EXCEPT ![p] = "upsert"]
       ELSE /\ pc' = [pc EXCEPT ![p] = "rollback"]
            /\ UNCHANGED <<invoices, nextId, tx>>
  /\ UNCHANGED <<suppliers, now, req, resp, created>>

\* an upsert that waits for nobody
SupplierNeverLocked(p, name, company) == FALSE

\* another open transaction holds the row (or the unique-index entry) of the pair
SupplierLocked(p, name, company) ==
  \E q \in Procs \ {p} :
    /\ tx[q].state = "open"
    /\ \E s \in tx[q].sup : s.name = name /\ s.company_phone = company

\* await client.query(INSERT INTO suppliers ... ON CONFLICT ... DO UPDATE)
UpsertSupplier(p, ok) ==
  /\ pc[p] = "upsert"
  /\ IF ok
       THEN /\ ~SupplierLocked(p, req[p].supplier_name, req[p].company_phone)
            /\ tx' = [tx EXCEPT ![p].sup = {UpsertedSupplier(req[p])}]
            /\ pc' = [pc EXCEPT ![p] = "commit"]
       ELSE /\ pc' = [pc EXCEPT ![p] = "rollback"]
            /\ UNCHANGED tx
  /\ UNCHANGED <<invoices, suppliers, now, nextId, req, resp, created>>

\* await client.query('COMMIT'): the writes of the transaction become visible
Commit(p, ok) ==
  /\ pc[p] = "commit"
  /\ IF ok
       THEN /\ invoices' = invoices \cup tx[p].inv
            /\ suppliers' = WithSupplier(tx[p].sup)
            /\ created' = [created EXCEPT
                 ![<<req[p].supplier_name, req[p].company_phone>>] =
                     [n |-> @.n + 1, sum |-> @.sum + req[p].amount]]
            /\ tx' = [tx EXCEPT ![p].state = "committed"]
            /\ pc' = [pc EXCEPT ![p] = "release"]
       ELSE /\ pc' = [pc EXCEPT ![p] = "rollback"]
            /\ UNCHANGED <<invoices, suppliers, created, tx>>
  /\ UNCHANGED <<now, nextId, req, resp>>

\* a catch without finally: a ROLLBACK that fails ends the helper with the
\* client still checked out
RollbackLeaking(p, ok) ==
  /\ pc[p] = "rollback"
  /\ IF ok
       THEN /\ tx' = [tx EXCEPT ![p].state = "aborted"]
            /\ pc' = [pc EXCEPT ![p] = "release"]
            /\ UNCHANGED <<req, resp>>
       ELSE /\ tx' = [tx EXCEPT ![p] = NoTx]
            /\ pc' = [pc EXCEPT ![p] = "idle"]
            /\ req' = [req EXCEPT ![p] = NoReq]
            /\ resp' = CreateFailure
  /\ UNCHANGED <<invoices, suppliers, now, nextId, created>>

\* catch: await client.query('ROLLBACK'); throw error.  Whether or not the
\* ROLLBACK is acknowledged, the store never commits the open transaction.
Rollback(p, ok) ==
  /\ pc[p] = "rollback"
  /\ tx' = [tx EXCEPT ![p].state = "aborted"]
  /\ pc' = [pc EXCEPT ![p] = "release"]
  /\ UNCHANGED <<invoices, suppliers, now, nextId, req, resp, created>>

\* finally: client.release(); then the handler answers 201 or 500
Release(p) ==
  /\ pc[p] = "release"
  /\ resp' = IF tx[p].state = "committed"
               THEN [op |-> "create", code |-> 201]
               ELSE CreateFailure
  /\ tx' = [tx EXCEPT ![p] = NoTx]
  /\ req' = [req EXCEPT ![p] = NoReq]
  /\ pc' = [pc EXCEPT ![p] = "idle"]
  /\ UNCHANGED <<invoices, suppliers, now, nextId, created>>

\* POST /api/invoices, one await at a time
CreateInvoice(p, bodies) ==
  \/ \E body \in bodies : CreateReceive(p, body)
  \/ \E ok \in BOOLEAN : Connect(p, ok)
  \/ \E ok \in BOOLEAN : Begin(p, ok)
  \/ \E ok \in BOOLEAN : InsertInvoice(p, ok)
  \/ \E ok \in BOOLEAN : UpsertSupplier(p, ok)
  \/ \E ok \in BOOLEAN : Commit(p, ok)
  \/ \E ok \in BOOLEAN : Rollback(p, ok)
  \/ Release(p)

\* The points where a run of the handler can fail
FailPoints == {"none", "connect", "begin", "insert", "upsert", "commit"}

\* POST /api/invoices run from validation to response with no other request
\* in between: the same statements as the steps above, failing at point fail
PostInvoice(body, fail) ==
  /\ \A p \in Procs : pc[p] = "idle"
  /\ IF invoiceSchema(body) # <<>>
       THEN /\ resp' = [op |-> "create", code |-> 400,
                        details |-> invoiceSchema(body), body |-> body]
            /\ UNCHANGED <<invoices, suppliers, nextId, created>>
       ELSE LET value == InvoiceValue(body)
                row == NewInvoiceRow(value, nextId, now)
                sup == UpsertedSupplier(value)
            IN /\ fail \notin {"connect", "begin"} => nextId <= MaxId
               /\ nextId' = IF fail \in {"none", "upsert", "commit"}
                              THEN nextId + 1 ELSE nextId
               /\ IF fail = "none"
                    THEN /\ invoices' = invoices \cup {row}
                         /\ suppliers' = WithSupplier({sup})
                         /\ created' = [created EXCEPT
                              ![<<value.supplier_name, value.company_phone>>] =
                                  [n |-> @.n + 1, sum |-> @.sum + value.amount]]
                         /\ resp' = [op |-> "create", code |-> 201]
                    ELSE /\ UNCHANGED <<invoices, suppliers, created>>
                         /\ resp' = CreateFailure
  /\ UNCHANGED <<now, pc, req, tx>>

----------------------------------------------------------------------------
(* POST /api/suppliers: one statement.  A new row takes the table's defaults *)
(* for the columns the INSERT does not list: the running counters start     *)
(* at 0 (spec.md section 3).                                                *)

SaveSupplier(name, company, ok) ==
  /\ ~SupplierLocked("none", name, company)
  /\ IF ~ok
       THEN /\ resp' = [op |-> "supplier", code |-> 500]
            /\ UNCHANGED suppliers
       ELSE /\ suppliers' =
                 IF SupplierRow(name, company) # {} THEN suppliers
                 ELSE suppliers \cup {[name |-> name, company_phone |-> company,
                                       total_invoices |-> 0, total_amount |-> 0,
                                       last_invoice_date |-> NULL]}
            /\ resp' = [op |-> "supplier", code |-> 201]
  /\ UNCHANGED <<invoices, now, nextId, pc, req, tx, created>>

----------------------------------------------------------------------------
(* PUT /api/invoices/:id, DELETE /api/invoices/:id, PATCH /:id/status:      *)
(* one statement each, run by query() outside any transaction              *)

RowsWithId(id) == {r \in invoices : r.id = id}

\* an UPDATE that also stamps confirmed_at when the status becomes confirmed
UpdatedRowConfirming(r, value) ==
  [r EXCEPT
     !.supplier_name = IF value.supplier_name # ABSENT THEN value.supplier_name ELSE @,
     !.amount = IF value.amount # NULL THEN value.amount ELSE @,
     !.status = IF value.status # ABSENT THEN value.status ELSE @,
     !.confirmed_at = IF value.status = "confirmed" THEN now ELSE @,
     !.updated_at = now]

\* UPDATE invoices SET <each key of value> = ..., updated_at = NOW()
UpdatedRow(r, value) ==
  [r EXCEPT
     !.supplier_name = IF value.supplier_name # ABSENT THEN value.supplier_name ELSE @,
     !.amount = IF value.amount # NULL THEN value.amount ELSE @,
     !.status = IF value.status # ABSENT THEN value.status ELSE @,
     !.updated_at = now]

\* PUT /api/invoices/:id
UpdateInvoice(id, body, ok) ==
  /\ IF updateSchema(body) # <<>>
       THEN /\ resp' = [op |-> "update", code |-> 400,
                        details |-> updateSchema(body)]
            /\ UNCHANGED invoices
       ELSE IF ~ok
         THEN /\ resp' = [op |-> "update", code |-> 500]
              /\ UNCHANGED invoices
         ELSE IF RowsWithId(id) = {}
           THEN /\ resp' = [op |-> "update", code |-> 404]
                /\ UNCHANGED invoices
           ELSE /\ invoices' = (invoices \ RowsWithId(id)) \cup
                                {UpdatedRow(r, body) : r \in RowsWithId(id)}
                /\ resp' = [op |-> "update", code |-> 200]
  /\ UNCHANGED <<suppliers, now, nextId, pc, req, tx, created>>

\* a delete that takes the invoice back out of its supplier's counters
DeleteInvoiceDecrement(id, ok) ==
  /\ IF ~ok
       THEN /\ resp' = [op |-> "delete", code |-> 500]
            /\ UNCHANGED <<invoices, suppliers>>
       ELSE IF RowsWithId(id) = {}
         THEN /\ resp' = [op |-> "delete", code |-> 404]
              /\ UNCHANGED <<invoices, suppliers>>
         ELSE /\ invoices' = invoices \ RowsWithId(id)
              /\ suppliers' =
                   {IF \E r \in RowsWithId(id) :
                          r.supplier_name = s.name /\ r.company_phone = s.company_phone
                      THEN [s EXCEPT !.total_invoices = @ - 1]
                      ELSE s : s \in suppliers}
              /\ resp' = [op |-> "delete", code |-> 200]
  /\ UNCHANGED <<now, nextId, pc, req, tx, created>>

\* DELETE FROM invoices WHERE id = $1 RETURNING id, supplier_name, amount
DeleteInvoice(id, ok) ==
  /\ IF ~ok
       THEN /\ resp' = [op |-> "delete", code |-> 500]
            /\ UNCHANGED invoices
       ELSE IF RowsWithId(id) = {}
         THEN /\ resp' = [op |-> "delete", code |-> 404]
              /\ UNCHANGED invoices
         ELSE /\ invoices' = invoices \ RowsWithId(id)
              /\ resp' = [op |-> "delete", code |-> 200]
  /\ UNCHANGED <<suppliers, now, nextId, pc, req, tx, created>>

\* SET status = $1, confirmed_at = CASE WHEN $1 = 'confirmed' THEN NOW()
\*                                 ELSE confirmed_at END, updated_at = NOW()
StatusRow(r, status) ==
  [r EXCEPT !.status = status,
            !.confirmed_at = IF status = "confirmed" THEN now ELSE @,
            !.updated_at = now]

\* the handler without its check of req.body.status
ChangeStatusUnchecked(id, status, ok) ==
  /\ IF ~ok
       THEN /\ resp' = [op |-> "status", code |-> 500, status |-> status]
            /\ UNCHANGED invoices
       ELSE IF RowsWithId(id) = {}
         THEN /\ resp' = [op |-> "status", code |-> 404, status |-> status]
              /\ UNCHANGED invoices
         ELSE /\ invoices' = (invoices \ RowsWithId(id)) \cup
                              {StatusRow(r, status) : r \in RowsWithId(id)}
              /\ resp' = [op |-> "status", code |-> 200, status |-> status]
  /\ UNCHANGED <<suppliers, now, nextId, pc, req, tx, created>>

\* PATCH /api/invoices/:id/status; the response is kept with the status the
\* request carried
ChangeStatus(id, status, ok) ==
  /\ IF status \notin {"pending", "confirmed", "paid"}
       THEN /\ resp' = [op |-> "status", code |-> 400, status |-> status]
            /\ UNCHANGED invoices
       ELSE IF ~ok
         THEN /\ resp' = [op |-> "status", code |-> 500, status |-> status]
              /\ UNCHANGED invoices
         ELSE IF RowsWithId(id) = {}
           THEN /\ resp' = [op |-> "status", code |-> 404, status |-> status]
                /\ UNCHANGED invoices
           ELSE /\ invoices' = (invoices \ RowsWithId(id)) \cup
                                {StatusRow(r, status) : r \in RowsWithId(id)}
                /\ resp' = [op |-> "status", code |-> 200, status |-> status]
  /\ UNCHANGED <<suppliers, now, nextId, pc, req, tx, created>>

----------------------------------------------------------------------------
(* Input domains of the write path *)

Ids == 1..MaxId

CreateBodies ==
  [company_phone : Companies \cup {ABSENT},
   supplier_name : SupplierNames \cup {ABSENT},
   amount : Amounts \cup BadAmounts \cup {NULL},
   status : Statuses \cup BadStatuses \cup {ABSENT},
   invoice_date : InvoiceDates,
   due_date : DueDates,
   category : Categories]

UpdateBodies ==
  [supplier_name : SupplierNames \cup {ABSENT},
   amount : Amounts \cup BadAmounts \cup {NULL},
   status : Statuses \cup BadStatuses \cup {ABSENT}]

\* A request that fails validation never reaches the store, so the failure
\* points are drawn for the valid requests only.
CreateInputs(bodies) ==
  {in \in bodies \X FailPoints : invoiceSchema(in[1]) # <<>> => in[2] = "none"}

UpdateInputs(bodies) ==
  {in \in Ids \X bodies \X BOOLEAN : updateSchema(in[2]) # <<>> => in[3]}

StatusInputs(statuses) ==
  {in \in Ids \X statuses \X BOOLEAN : in[2] \notin Statuses => in[3]}

\* Spec: the supplier counters under creation.  Every pair and amount; the
\* status is left to its default and the clock is at rest.
CounterCreates ==
  {b \in CreateBodies : /\ b.status = ABSENT /\ b.invoice_date = NULL
                        /\ b.category = ABSENT}

Next ==
  \/ \E in \in CreateInputs(CounterCreates) : PostInvoice(in[1], in[2])
  \/ \E name \in SupplierNames, company \in Companies, ok \in BOOLEAN :
        SaveSupplier(name, company, ok)

Spec == Init /\ [][Next]_vars

\* SpecEdit: edits, deletions and status changes against the counters.
\* Invoices are created for one pair; an edit can move them to another name.
EditCreates ==
  {b \in CounterCreates : b.company_phone # "c2" /\ b.supplier_name # "s2"}
EditUpdates == {b \in UpdateBodies : b.status = ABSENT}

NextEdit ==
  \/ \E in \in CreateInputs(EditCreates) : PostInvoice(in[1], in[2])
  \/ \E in \in UpdateInputs(EditUpdates) : UpdateInvoice(in[1], in[2], in[3])
  \/ \E id \in Ids, ok \in BOOLEAN : DeleteInvoice(id, ok)
  \/ \E in \in StatusInputs({"paid", "archived"}) : ChangeStatus(in[1], in[2], in[3])

SpecEdit == Init /\ [][NextEdit]_vars

\* SpecTx: the transaction of a create request, one await at a time.
TxCreates == CounterCreates

NextTx == \E p \in SeqProcs : CreateInvoice(p, TxCreates)

SpecTx == Init /\ [][NextTx]_vars

\* SpecLife: the life of an invoice.  One pair and one amount, every status,
\* the clock running.
LifeCreates ==
  {b \in CreateBodies : /\ b.company_phone = "c1" /\ b.supplier_name = "s1"
                        /\ b.amount = 50 /\ b.invoice_date = NULL
                        /\ b.category = ABSENT}
LifeUpdates == {b \in UpdateBodies : b.supplier_name = ABSENT /\ b.amount = NULL}

NextLife ==
  \/ Tick
  \/ \E in \in CreateInputs(LifeCreates) : PostInvoice(in[1], in[2])
  \/ \E in \in UpdateInputs(LifeUpdates) : UpdateInvoice(in[1], in[2], in[3])
  \/ \E id \in Ids, ok \in BOOLEAN : DeleteInvoice(id, ok)
  \/ \E in \in StatusInputs(Statuses \cup BadStatuses \cup {ABSENT}) :
        ChangeStatus(in[1], in[2], in[3])

SpecLife == Init /\ [][NextLife]_vars

----------------------------------------------------------------------------
(* Reporting queries of routes/analytics.js.  A text is a sequence of       *)
(* one-character strings.                                                   *)

MonthDays == 30              \* days of a month of the uniform calendar
YearDays == 12 * MonthDays

UNDEFINED == <<ABSENT>>      \* a query parameter that was not sent

Max(S) == CHOOSE x \in S : \A y \in S : y <= x

\* String.prototype.replace(pattern, replacement) with a one-character
\* pattern: the first occurrence only
RECURSIVE ReplaceFirst(_, _, _)
ReplaceFirst(text, ch, by) ==
  IF text = <<>> THEN <<>>
  ELSE IF Head(text) = ch THEN by \o Tail(text)
  ELSE <<Head(text)>> \o ReplaceFirst(Tail(text), ch, by)

Digits == <<"0", "1", "2", "3", "4", "5", "6", "7", "8", "9">>
IsDigit(c) == \E i \in 1..10 : Digits[i] = c
DigitValue(c) == (CHOOSE i \in 1..10 : Digits[i] = c) - 1

RECURSIVE LeadingDigits(_)
LeadingDigits(text) ==
  IF text # <<>> /\ IsDigit(Head(text))
    THEN <<Head(text)>> \o LeadingDigits(Tail(text))
    ELSE <<>>

RECURSIVE Decimal(_, _)
Decimal(digits, acc) ==
  IF digits = <<>> THEN acc
  ELSE Decimal(Tail(digits), 10 * acc + DigitValue(Head(digits)))

\* PostgreSQL reading INTERVAL '<text>', for the texts the handler builds: a
\* count followed by " days" or " year", in days; NULL when the text is not
\* an interval (the query then fails), as for '30 da years'
IntervalDays(text) ==
  LET digits == LeadingDigits(text)
      unit == SubSeq(text, Len(digits) + 1, Len(text))
  IN IF digits = <<>> THEN NULL
     ELSE IF unit = <<" ", "d", "a", "y", "s">> THEN Decimal(digits, 0)
     ELSE IF unit = <<" ", "y", "e", "a", "r">> THEN Decimal(digits, 0) * YearDays
     ELSE NULL

\* ROUND(n / d, 0) for d > 0: halves go away from zero
RoundDiv(n, d) ==
  IF n >= 0 THEN (2 * n + d) \div (2 * d) ELSE -((2 * (-n) + d) \div (2 * d))

\* a percent change that counts growth out of nothing as 100 percent
PercentChangeFromNothing(cur, prev) ==
  IF prev > 0 THEN RoundDiv((cur - prev) * 10000, prev)
  ELSE IF cur > 0 THEN 10000 ELSE 0

\* CASE WHEN prev > 0 THEN ROUND((cur - prev) / prev * 100, 2) ELSE 0 END,
\* in hundredths of a percent; a NULL prev takes the ELSE branch
PercentChange(cur, prev) ==
  IF prev > 0 THEN RoundDiv((cur - prev) * 10000, prev) ELSE 0

\* switch (period): the days of dateFilter, created_at >= NOW() - INTERVAL
DateFilterDays(period) ==
  IF period = <<"7", "d">> THEN 7
  ELSE IF period = <<"3", "0", "d">> THEN 30
  ELSE IF period = <<"9", "0", "d">> THEN 90
  ELSE IF period = <<"1", "y">> THEN YearDays
  ELSE 30

\* period.replace('d', ' days').replace('y', ' year')
PreviousIntervalText(period) ==
  ReplaceFirst(ReplaceFirst(period, "d", <<" ", "d", "a", "y", "s">>),
               "y", <<" ", "y", "e", "a", "r">>)

\* WHERE company_phone = $1 ${dateFilter}
PeriodRows(company, period) ==
  {r \in invoices : /\ r.company_phone = company
                    /\ r.created_at >= now - DateFilterDays(period)}

\* WHERE company_phone = $1 AND created_at < NOW() - INTERVAL '<text>'
\*   AND created_at >= NOW() - INTERVAL '<text>' * 2
PreviousPeriodRows(company, period) ==
  LET days == IntervalDays(PreviousIntervalText(period))
  IN {r \in invoices : /\ r.company_phone = company
                       /\ r.created_at < now - days
                       /\ r.created_at >= now - days * 2}

Coalesce(x, d) == IF x = NULL THEN d ELSE x

\* AVG(amount) in hundredths, NULL over no rows
AvgAmount(rows) ==
  IF rows = {} THEN NULL
  ELSE RoundDiv(100 * SumAmount(rows), Cardinality(rows))

\* LIMIT n
Limit(rows, n) == SubSeq(rows, 1, IF Len(rows) < n THEN Len(rows) ELSE n)

\* ORDER BY total_amount DESC
RECURSIVE ByTotalAmountDesc(_)
ByTotalAmountDesc(S) ==
  IF S = {} THEN <<>>
  ELSE LET r == CHOOSE x \in S : \A y \in S : y.total_amount <= x.total_amount
       IN <<r>> \o ByTotalAmountDesc(S \ {r})

\* ORDER BY month DESC
RECURSIVE ByMonthDesc(_)
ByMonthDesc(S) ==
  IF S = {} THEN <<>>
  ELSE LET r == CHOOSE x \in S : \A y \in S : y.month <= x.month
       IN <<r>> \o ByMonthDesc(S \ {r})

\* metricsResult.rows[0]
DashboardMetrics(company, period) ==
  LET ps == PeriodRows(company, period)
      pps == PreviousPeriodRows(company, period)
  IN [total_invoices |-> Cardinality(ps),
      total_amount |-> SumAmount(ps),
      avg_amount |-> Coalesce(AvgAmount(ps), 0),
      unique_suppliers |-> Cardinality({r.supplier_name : r \in ps}),
      pending_invoices |-> Cardinality({r \in ps : r.status = "pending"}),
      confirmed_invoices |-> Cardinality({r \in ps : r.status = "confirmed"}),
      paid_invoices |-> Cardinality({r \in ps : r.status = "paid"}),
      overdue_invoices |->
        Cardinality({r \in ps : /\ r.due_date # NULL /\ r.due_date < now
                                /\ r.status # "paid"}),
      prev_total_invoices |-> Cardinality(pps),
      prev_total_amount |-> SumAmount(pps),
      amount_change_percent |-> PercentChange(SumAmount(ps), SumAmount(pps)),
      invoices_change_percent |-> PercentChange(Cardinality(ps), Cardinality(pps))]

\* categoriesResult.rows: category IS NOT NULL AND category != ''
\* GROUP BY category ORDER BY total_amount DESC LIMIT 10
TopCategories(company, period) ==
  LET rows == {r \in PeriodRows(company, period) : r.category # ABSENT}
      of(c) == {r \in rows : r.category = c}
  IN Limit(ByTotalAmountDesc({[category |-> c,
                               invoice_count |-> Cardinality(of(c)),
                               total_amount |-> SumAmount(of(c))] :
                              c \in {r.category : r \in rows}}), 10)

\* suppliersResult.rows: GROUP BY supplier_name ORDER BY total_amount DESC
\* LIMIT 10
TopSuppliers(company, period) ==
  LET rows == PeriodRows(company, period)
      of(n) == {r \in rows : r.supplier_name = n}
  IN Limit(ByTotalAmountDesc({[supplier_name |-> n,
                               invoice_count |-> Cardinality(of(n)),
                               total_amount |-> SumAmount(of(n))] :
                              n \in {r.supplier_name : r \in rows}}), 10)

\* trendResult.rows: created_at >= NOW() - INTERVAL '6 months'
\* GROUP BY DATE_TRUNC('month', created_at) ORDER BY month DESC
MonthlyTrend(company) ==
  LET rows == {r \in invoices : /\ r.company_phone = company
                                /\ r.created_at >= now - 6 * MonthDays}
      of(m) == {r \in rows : r.created_at \div MonthDays = m}
  IN ByMonthDesc({[month |-> m,
                   invoice_count |-> Cardinality(of(m)),
                   total_amount |-> SumAmount(of(m))] :
                  m \in {r.created_at \div MonthDays : r \in rows}})

\* GET /api/analytics/dashboard.  ok: the store is up, so that the query
\* fails only if its text is refused.  The response is kept with the request
\* it answers and the number of queries the handler sent to the store.
Dashboard(company, sent, ok) ==
  LET period == IF sent = UNDEFINED THEN <<"3", "0", "d">> ELSE sent
      request == [company |-> company, period |-> period, store_up |-> ok]
  IN /\ resp' =
          IF company = ABSENT
            THEN [op |-> "dashboard", code |-> 400, request |-> request,
                  queries |-> 0]
          ELSE IF ~ok \/ IntervalDays(PreviousIntervalText(period)) = NULL
            THEN [op |-> "dashboard", code |-> 500, request |-> request,
                  queries |-> 1]
          ELSE [op |-> "dashboard", code |-> 200, request |-> request,
                queries |-> 4,
                metrics |-> DashboardMetrics(company, period),
                top_categories |-> TopCategories(company, period),
                top_suppliers |-> TopSuppliers(company, period),
                monthly_trend |-> MonthlyTrend(company)]
     /\ UNCHANGED <<invoices, suppliers, now, nextId, pc, req, tx, created>>

\* DATE_TRUNC('month', date), as the number of the month
Month(date) == date \div MonthDays

\* WITH monthly_data: invoice_date >= NOW() - INTERVAL '12 months'
GrowthRows(company) ==
  {r \in invoices : /\ r.company_phone = company
                    /\ r.invoice_date # NULL
                    /\ r.invoice_date >= now - 12 * MonthDays}

\* SUM(amount) ... GROUP BY DATE_TRUNC('month', invoice_date)
MonthlyAmount(rows, m) == SumAmount({r \in rows : Month(r.invoice_date) = m})

\* LAG(monthly_amount) OVER (ORDER BY month): the amount of the row before
\* in month order, NULL for the first row
Lag(rows, m) ==
  LET before == {Month(r.invoice_date) : r \in rows} \cap 0..(m - 1)
  IN IF before = {} THEN NULL ELSE MonthlyAmount(rows, Max(before))

RECURSIVE Descending(_)
Descending(S) ==
  IF S = {} THEN <<>> ELSE <<Max(S)>> \o Descending(S \ {Max(S)})

\* growthAnalysis.rows: ORDER BY month DESC LIMIT 6
GrowthAnalysis(company) ==
  LET rows == GrowthRows(company)
      months == Descending({Month(r.invoice_date) : r \in rows})
      shown == SubSeq(months, 1, IF Len(months) < 6 THEN Len(months) ELSE 6)
  IN [i \in 1..Len(shown) |->
        [month |-> shown[i],
         monthly_amount |-> MonthlyAmount(rows, shown[i]),
         previous_month |-> Lag(rows, shown[i]),
         growth_rate |-> PercentChange(MonthlyAmount(rows, shown[i]),
                                       Lag(rows, shown[i]))]]

\* ORDER BY month, over the rows of a monthly view
RECURSIVE ByMonthAsc(_)
ByMonthAsc(S) ==
  IF S = {} THEN <<>>
  ELSE LET r == CHOOSE x \in S : \A y \in S : x.month <= y.month
       IN <<r>> \o ByMonthAsc(S \ {r})

\* monthlyTrends.rows: invoice_date >= NOW() - INTERVAL '12 months' when
\* period === '12m', '6 months' otherwise
MonthlyTrends(company, period) ==
  LET months == IF period = "12m" THEN 12 ELSE 6
      rows == {r \in invoices : /\ r.company_phone = company
                                /\ r.invoice_date # NULL
                                /\ r.invoice_date >= now - months * MonthDays}
      of(m) == {r \in rows : Month(r.invoice_date) = m}
  IN ByMonthAsc({[month |-> m,
                  invoice_count |-> Cardinality(of(m)),
                  total_amount |-> SumAmount(of(m)),
                  avg_amount |-> AvgAmount(of(m)),
                  unique_suppliers |-> Cardinality({r.supplier_name : r \in of(m)})] :
                 m \in {Month(r.invoice_date) : r \in rows}})

\* weeklyTrends.rows, in no order: the last 3 months by EXTRACT(DOW FROM
\* invoice_date); day 0 of the calendar is a Sunday
WeeklyTrends(company) ==
  LET rows == {r \in invoices : /\ r.company_phone = company
                                /\ r.invoice_date # NULL
                                /\ r.invoice_date >= now - 3 * MonthDays}
      of(d) == {r \in rows : r.invoice_date % 7 = d}
  IN {[day_of_week |-> d,
       invoice_count |-> Cardinality(of(d)),
       total_amount |-> SumAmount(of(d))] : d \in {r.invoice_date % 7 : r \in rows}}

\* GET /api/analytics/trends?company_phone=..&period=..; not sent, period
\* is '12m'
TrendsFor(company, sent, ok) ==
  LET period == IF sent = ABSENT THEN "12m" ELSE sent
      request == [company |-> company, period |-> period, store_up |-> ok]
  IN
  /\ resp' =
       IF company = ABSENT
         THEN [op |-> "trends", code |-> 400, request |-> request, queries |-> 0]
       ELSE IF ~ok
         THEN [op |-> "trends", code |-> 500, request |-> request, queries |-> 1]
       ELSE [op |-> "trends", code |-> 200, request |-> request, queries |-> 3,
             monthly_trends |-> MonthlyTrends(company, period),
             weekly_patterns |-> WeeklyTrends(company),
             growth_analysis |-> GrowthAnalysis(company)]
  /\ UNCHANGED <<invoices, suppliers, now, nextId, pc, req, tx, created>>

\* GET /api/analytics/trends without a period
Trends(company, ok) == TrendsFor(company, ABSENT, ok)

----------------------------------------------------------------------------
(* SpecReport: the queries over the stores of up to MaxReportInvoices       *)
(* invoices that creation alone leaves at day ReportNow.  The invoices were *)
(* created ReportAges days ago, oldest first, each dated the day it was     *)
(* created; those of amount 100 carry a category.                           *)

MaxReportInvoices == 2
ReportNow == 725
ReportAges == {0, 7, 8, 30, 31, 60, 361}

ReportValues ==
  {v \in [company_phone : Companies, amount : Amounts, age : ReportAges] :
     v.company_phone = "c2" => v.amount = 50}

ReportRow(v, id) ==
  [NewInvoiceRow([company_phone |-> v.company_phone, supplier_name |-> "s1",
                  amount |-> v.amount, status |-> "pending",
                  invoice_date |-> ReportNow - v.age, due_date |-> NULL,
                  category |-> IF v.amount = 100 THEN "k1" ELSE ABSENT],
                 id, ReportNow - v.age)
   EXCEPT !.created_at = ReportNow - v.age]

\* the creations in the order they happened
ReportHistories ==
  UNION {{h \in [1..n -> ReportValues] :
            \A i \in 1..(n - 1) : h[i].age >= h[i + 1].age} :
         n \in 0..MaxReportInvoices}

RECURSIVE CountersAfter(_, _, _)
CountersAfter(h, i, k) ==
  IF i = 0 THEN [n |-> 0, sum |-> 0]
  ELSE LET c == CountersAfter(h, i - 1, k)
       IN IF k = <<"s1", h[i].company_phone>>
            THEN [n |-> c.n + 1, sum |-> c.sum + h[i].amount]
            ELSE c

ReportInit ==
  \E h \in ReportHistories :
    /\ invoices = {ReportRow(h[i], i) : i \in 1..Len(h)}
    /\ created = [k \in Pairs |-> CountersAfter(h, Len(h), k)]
    /\ suppliers =
         {[name |-> k[1], company_phone |-> k[2],
           total_invoices |-> CountersAfter(h, Len(h), k).n,
           total_amount |-> CountersAfter(h, Len(h), k).sum,
           last_invoice_date |->
             ReportNow - h[Max({i \in 1..Len(h) : h[i].company_phone = k[2]})].age] :
          k \in {k \in Pairs : CountersAfter(h, Len(h), k).n > 0}}
    /\ nextId = Len(h) + 1
    /\ now = ReportNow
    /\ pc = [p \in Procs |-> "idle"]
    /\ req = [p \in Procs |-> NoReq]
    /\ tx = [p \in Procs |-> NoTx]
    /\ resp = NoResp

ReportPeriods ==
  {<<"7", "d">>, <<"3", "0", "d">>, <<"9", "0", "d">>, <<"1", "y">>,
   <<"6", "0", "d">>, <<"2", "y">>, <<"x">>, UNDEFINED}

NextReport ==
  \/ \E company \in Companies \cup {ABSENT}, sent \in ReportPeriods, ok \in BOOLEAN :
        Dashboard(company, sent, ok)
  \/ \E company \in Companies \cup {ABSENT}, ok \in BOOLEAN : Trends(company, ok)

SpecReport == ReportInit /\ [][NextReport]_vars

----------------------------------------------------------------------------
(* The write path: claims *)

\* C1: invoice creation is all-or-nothing.  In every step the invoice rows
\* gained and the supplier counters gained agree in number and in amount
\* (both writes commit in one step or neither does), and a row inserted by a
\* transaction that has not committed (open, or rolled back after a later
\* statement failed) is not in the store.
C1_AllOrNothing ==
  [][ /\ Cardinality(invoices') - Cardinality(invoices)
           = SumTotalInvoices(suppliers') - SumTotalInvoices(suppliers)
      /\ SumAmount(invoices') - SumAmount(invoices)
           = SumTotalAmount(suppliers') - SumTotalAmount(suppliers)
      /\ \A p \in Procs :
           tx'[p].state # "committed" => tx'[p].inv \cap invoices' = {} ]_vars

\* the supplier upsert failed after the invoice insert succeeded, with an
\* earlier invoice already committed
C1_Witness ==
  \E p \in Procs :
    /\ pc[p] = "release" /\ tx[p].state = "aborted"
    /\ tx[p].inv # {} /\ tx[p].sup = {}
    /\ invoices # {}

\* C2: a create for a pair that has no Supplier row leaves exactly one row
\* for the pair, with total_invoices = 1 and total_amount = the amount.
C2_FirstInvoiceMakesSupplier ==
  [][ \A r \in invoices' \ invoices :
        SupplierRow(r.supplier_name, r.company_phone) = {} =>
          \E s \in suppliers' :
            /\ SupplierRowsIn(suppliers', r.supplier_name, r.company_phone) = {s}
            /\ s.total_invoices = 1
            /\ s.total_amount = r.amount
            /\ suppliers' = suppliers \cup {s} ]_vars

\* the first invoice of the store, amount 100, made the only supplier row
C2_Witness ==
  /\ resp = [op |-> "create", code |-> 201]
  /\ Cardinality(invoices) = 1
  /\ Cardinality(suppliers) = 1
  /\ \E s \in suppliers : s.total_invoices = 1 /\ s.total_amount = 100

\* C3: each pair has at most one Supplier row, and its total_invoices and
\* total_amount are the number and the sum of the amounts of the creations
\* committed for that pair; a pair with a creation has a row.
C3_CountersMatchCreations ==
  \A k \in Pairs :
    LET rows == SupplierRow(k[1], k[2])
    IN /\ Cardinality(rows) <= 1
       /\ created[k].n > 0 => rows # {}
       /\ \A s \in rows : /\ s.total_invoices = created[k].n
                           /\ s.total_amount = created[k].sum

\* amounts 100 and 50 for one pair give 2 and 150
C3_Witness ==
  \E s \in suppliers :
    /\ s.total_invoices = 2 /\ s.total_amount = 150
    /\ {r.amount : r \in {x \in invoices : x.supplier_name = s.name
                                          /\ x.company_phone = s.company_phone}}
         = {50, 100}

\* C4: supplier counters never go down, and an edit, a deletion or a status
\* change leaves the suppliers table as it was.
C4_CountersNeverDecrease ==
  [][ /\ \A s \in suppliers :
           \E t \in suppliers' :
             /\ t.name = s.name /\ t.company_phone = s.company_phone
             /\ t.total_invoices >= s.total_invoices
             /\ t.total_amount >= s.total_amount
      /\ resp'.op \in {"update", "delete", "status"} => suppliers' = suppliers
    ]_vars

\* the only invoice was deleted and its supplier still counts it
C4_Witness ==
  /\ resp = [op |-> "delete", code |-> 200]
  /\ invoices = {}
  /\ \E s \in suppliers : s.total_invoices = 1 /\ s.total_amount = 50

\* C5: a change-status request whose status is not pending, confirmed or
\* paid is answered 400, only such a request is, and the step that answers
\* 400 changes no row.
C5_InvalidStatusRejected ==
  [][ resp'.op = "status" =>
        /\ resp'.status \notin Statuses <=> resp'.code = 400
        /\ resp'.code = 400 => invoices' = invoices /\ suppliers' = suppliers
    ]_vars

C5_Witness ==
  /\ resp = [op |-> "status", code |-> 400, status |-> "archived"]
  /\ \E r \in invoices : r.status = "confirmed" /\ r.confirmed_at # NULL

\* C6: once an invoice's confirmed_at is set, no step changes it.
C6_ConfirmedAtSetOnce ==
  [][ \A r \in invoices : \A t \in invoices' :
        (t.id = r.id /\ r.confirmed_at # NULL) => t.confirmed_at = r.confirmed_at
    ]_vars

\* C7: every stored invoice has amount > 0, and a request answered with a
\* validation failure leaves invoices and suppliers as they were.
C7_AmountPositive ==
  [][ /\ \A r \in invoices' : r.amount > 0
      /\ resp'.code = 400 => invoices' = invoices /\ suppliers' = suppliers
    ]_vars

\* an edit carrying a bad amount was refused for that amount
C7_Witness ==
  /\ resp = [op |-> "update", code |-> 400, details |-> <<"amount">>]
  /\ invoices # {}

----------------------------------------------------------------------------
(* The reporting queries: claims *)

ValidPeriods == {<<"7", "d">>, <<"3", "0", "d">>, <<"9", "0", "d">>, <<"1", "y">>}

\* the days of a period selector
PeriodLength(period) ==
  IF period = <<"7", "d">> THEN 7
  ELSE IF period = <<"3", "0", "d">> THEN 30
  ELSE IF period = <<"9", "0", "d">> THEN 90
  ELSE YearDays

\* the invoices of a company created in the window of the given length that
\* ends back days before now
WindowRows(company, length, back) ==
  {r \in invoices : /\ r.company_phone = company
                    /\ r.created_at >= now - back - length
                    /\ IF back = 0 THEN r.created_at <= now
                                   ELSE r.created_at < now - back}

\* C8: for every company and every period of 7d, 30d, 90d, 1y the dashboard
\* answers with total_amount and total_invoices equal to the sum and the
\* number of the company's invoices created in the trailing window.
C8_DashboardTotals ==
  (/\ resp.op = "dashboard"
   /\ resp.request.company # ABSENT
   /\ resp.request.store_up
   /\ resp.request.period \in ValidPeriods)
  => /\ resp.code = 200
     /\ LET rows == WindowRows(resp.request.company,
                               PeriodLength(resp.request.period), 0)
        IN /\ resp.metrics.total_amount = SumAmount(rows)
           /\ resp.metrics.total_invoices = Cardinality(rows)

\* C9: for every dashboard call, whatever the period selector, the previous
\* period is the window as long as the current one that ends where the
\* current one starts.
C9_PreviousPeriodAdjacent ==
  (/\ resp.op = "dashboard" /\ resp.code = 200)
  => LET rows == WindowRows(resp.request.company,
                            DateFilterDays(resp.request.period),
                            DateFilterDays(resp.request.period))
     IN /\ resp.metrics.prev_total_invoices = Cardinality(rows)
        /\ resp.metrics.prev_total_amount = SumAmount(rows)

\* C10: a percent change is 0 whenever its base is 0 (or missing): both
\* percent changes of the dashboard and the growth_rate of every row of the
\* growth analysis.
C10_ZeroBaseZeroChange ==
  /\ (resp.op = "dashboard" /\ resp.code = 200) =>
       /\ resp.metrics.prev_total_amount = 0 =>
            resp.metrics.amount_change_percent = 0
       /\ resp.metrics.prev_total_invoices = 0 =>
            resp.metrics.invoices_change_percent = 0
  /\ (resp.op = "trends" /\ resp.code = 200) =>
       \A i \in DOMAIN resp.growth_analysis :
         resp.growth_analysis[i].previous_month \in {NULL, 0} =>
           resp.growth_analysis[i].growth_rate = 0

\* the oldest of two months of the growth analysis has no month before it,
\* and the newer one fell by half
C10_Witness ==
  /\ resp.op = "trends" /\ resp.code = 200
  /\ Len(resp.growth_analysis) = 2
  /\ resp.growth_analysis[2].previous_month = NULL
  /\ resp.growth_analysis[2].monthly_amount = 100
  /\ resp.growth_analysis[1].growth_rate = -5000

\* the zeroed dashboard of a company without invoices
EmptyDashboard(r) ==
  /\ r.metrics.total_invoices = 0
  /\ r.metrics.total_amount = 0
  /\ r.metrics.avg_amount = 0
  /\ r.metrics.unique_suppliers = 0
  /\ r.metrics.pending_invoices = 0
  /\ r.metrics.confirmed_invoices = 0
  /\ r.metrics.paid_invoices = 0
  /\ r.metrics.overdue_invoices = 0
  /\ r.metrics.amount_change_percent = 0
  /\ r.metrics.invoices_change_percent = 0
  /\ r.top_categories = <<>>
  /\ r.top_suppliers = <<>>
  /\ r.monthly_trend = <<>>

\* C11: a dashboard call for a company that has no invoice, with the store
\* up and a period of 7d, 30d, 90d, 1y (or none, which is 30d), is answered
\* 200 with every count, amount and percent 0 and the three arrays empty.
C11_EmptyCompanyDashboard ==
  (/\ resp.op = "dashboard"
   /\ resp.request.company # ABSENT
   /\ resp.request.store_up
   /\ resp.request.period \in ValidPeriods
   /\ \A r \in invoices : r.company_phone # resp.request.company)
  => /\ resp.code = 200
     /\ EmptyDashboard(resp)

\* the part of C11 the handler keeps: when it answers 200 for a company
\* without invoices, the answer is the zeroed one
C11_EmptyWhenAnswered ==
  (/\ resp.op = "dashboard" /\ resp.code = 200
   /\ \A r \in invoices : r.company_phone # resp.request.company)
  => EmptyDashboard(resp)

----------------------------------------------------------------------------
(* GET /api/analytics/cashflow *)

UpcomingLimit == 20          \* LIMIT 20 of upcoming_payments

\* query(text, params): pool.query refuses a statement that names more
\* parameters than params carries values, and fails when the store is down
QueryRuns(placeholders, params, ok) == ok /\ placeholders <= Len(params)

\* the handler passing [company_phone]
CashflowParamsBound(company) == <<company>>

\* the values the handler passes to query() next to the statement: none
CashflowParams(company) == <<>>

\* ORDER BY due_date ASC, over invoice rows
RECURSIVE ByDueDate(_)
ByDueDate(S) ==
  IF S = {} THEN <<>>
  ELSE LET r == CHOOSE x \in S : \A y \in S : x.due_date <= y.due_date
       IN <<r>> \o ByDueDate(S \ {r})

\* ORDER BY month, over buckets
RECURSIVE ByMonth(_)
ByMonth(S) ==
  IF S = {} THEN <<>>
  ELSE LET r == CHOOSE x \in S : \A y \in S : x.month <= y.month
       IN <<r>> \o ByMonth(S \ {r})

\* CASE WHEN due_date < CURRENT_DATE THEN 'overdue' ... END
Urgency(due_date) ==
  IF due_date < now THEN "overdue"
  ELSE IF due_date <= now + 7 THEN "due_this_week"
  ELSE IF due_date <= now + 30 THEN "due_this_month"
  ELSE "future"

\* WHERE company_phone = $1 AND due_date >= NOW() - INTERVAL '<months> months'
\*   AND due_date <= NOW() + INTERVAL '3 months'
CashflowRows(company, months) ==
  {r \in invoices : /\ r.company_phone = company
                    /\ r.due_date # NULL
                    /\ r.due_date >= now - months * MonthDays
                    /\ r.due_date <= now + 3 * MonthDays}

\* WITH monthly_cashflow ... GROUP BY DATE_TRUNC('month', due_date), with the
\* COALESCEs of the outer json_build_object.  Each bucket is kept with the
\* ids of the rows grouped into it.
MonthlyCashflow(company, months) ==
  LET rows == CashflowRows(company, months)
      of(m) == {r \in rows : Month(r.due_date) = m}
      late(m) == {r \in of(m) : r.due_date < now /\ r.status # "paid"}
  IN ByMonth({[month |-> m,
               pending_payments |-> SumAmount({r \in of(m) : r.status = "confirmed"}),
               completed_payments |-> SumAmount({r \in of(m) : r.status = "paid"}),
               overdue_count |-> Cardinality(late(m)),
               overdue_amount |-> SumAmount(late(m)),
               ids |-> {r.id : r \in of(m)}] :
              m \in {Month(r.due_date) : r \in rows}})

\* WITH upcoming_payments ... ORDER BY due_date ASC LIMIT 20
UpcomingPayments(company) ==
  LET rows == {r \in invoices : /\ r.company_phone = company
                                /\ r.status \in {"confirmed", "pending"}
                                /\ r.due_date # NULL
                                /\ r.due_date >= now - 30}
      first == Limit(ByDueDate(rows), UpcomingLimit)
  IN [i \in 1..Len(first) |->
        [due_date |-> first[i].due_date,
         supplier_name |-> first[i].supplier_name,
         amount |-> first[i].amount,
         status |-> first[i].status,
         urgency |-> Urgency(first[i].due_date),
         id |-> first[i].id]]

\* GET /api/analytics/cashflow?company_phone=..&months=..; not sent, months
\* is 6.  json_agg over no rows is null; it is the empty sequence here.
Cashflow(company, sent, ok) ==
  LET months == IF sent = NULL THEN 6 ELSE sent
      request == [company |-> company, months |-> months, store_up |-> ok]
  IN /\ resp' =
          IF company = ABSENT
            THEN [op |-> "cashflow", code |-> 400, request |-> request,
                  queries |-> 0]
          ELSE IF ~QueryRuns(1, CashflowParams(company), ok)
            THEN [op |-> "cashflow", code |-> 500, request |-> request,
                  queries |-> 1]
          ELSE [op |-> "cashflow", code |-> 200, request |-> request,
                queries |-> 1,
                monthly_cashflow |-> MonthlyCashflow(company, months),
                upcoming_payments |-> UpcomingPayments(company)]
     /\ UNCHANGED <<invoices, suppliers, now, nextId, pc, req, tx, created>>

----------------------------------------------------------------------------
(* SpecCash: the cash-flow query over the stores of up to MaxCashInvoices   *)
(* invoices of supplier s1 that creation alone leaves at day ReportNow,     *)
(* each created and dated that day, due CashDue days from it (or never).    *)

MaxCashInvoices == 2
CashDue == {-31, -1, 0, 8, 91}
CashMonths == {1, 6}

CashValues ==
  {v \in [company_phone : Companies, amount : {121}, status : Statuses,
          due : CashDue \cup {NULL - ReportNow}] :
     v.company_phone = "c2" => (v.status = "pending" /\ v.due = -1)}

CashRow(v, id) ==
  NewInvoiceRow([company_phone |-> v.company_phone, supplier_name |-> "s1",
                 amount |-> v.amount, status |-> v.status,
                 invoice_date |-> ReportNow, due_date |-> ReportNow + v.due,
                 category |-> ABSENT],
                id, ReportNow)

CashHistories == UNION {[1..n -> CashValues] : n \in 0..MaxCashInvoices}

CashInit ==
  \E h \in CashHistories :
    /\ invoices = {CashRow(h[i], i) : i \in 1..Len(h)}
    /\ created = [k \in Pairs |-> CountersAfter(h, Len(h), k)]
    /\ suppliers =
         {[name |-> k[1], company_phone |-> k[2],
           total_invoices |-> CountersAfter(h, Len(h), k).n,
           total_amount |-> CountersAfter(h, Len(h), k).sum,
           last_invoice_date |-> ReportNow] :
          k \in {k \in Pairs : CountersAfter(h, Len(h), k).n > 0}}
    /\ nextId = Len(h) + 1
    /\ now = ReportNow
    /\ pc = [p \in Procs |-> "idle"]
    /\ req = [p \in Procs |-> NoReq]
    /\ tx = [p \in Procs |-> NoTx]
    /\ resp = NoResp

NextCash ==
  \E company \in Companies \cup {ABSENT}, sent \in CashMonths \cup {NULL},
     ok \in BOOLEAN : Cashflow(company, sent, ok)

SpecCash == CashInit /\ [][NextCash]_vars

----------------------------------------------------------------------------
(* The cash-flow query: claims *)

\* a cash-flow call that names its company, with the store up
CashflowAsked ==
  /\ resp.op = "cashflow"
  /\ resp.request.company # ABSENT
  /\ resp.request.store_up

\* C13: a cash-flow call for a company holding a confirmed invoice of 121
\* due yesterday is answered 200; the invoice is in upcoming_payments with
\* urgency overdue, and the bucket of its due-date month counts it once in
\* overdue_count and has its amount in overdue_amount.
C13_OverdueListedAndCounted ==
  CashflowAsked =>
    \A r \in invoices :
      (/\ r.company_phone = resp.request.company
       /\ r.status = "confirmed" /\ r.amount = 121
       /\ r.due_date = now - 1)
      => /\ resp.code = 200
         /\ \E i \in DOMAIN resp.upcoming_payments :
              /\ resp.upcoming_payments[i].id = r.id
              /\ resp.upcoming_payments[i].urgency = "overdue"
         /\ \E i \in DOMAIN resp.monthly_cashflow :
              LET b == resp.monthly_cashflow[i]
                  late == {x \in invoices :
                             /\ x.company_phone = resp.request.company
                             /\ x.due_date # NULL
                             /\ Month(x.due_date) = Month(r.due_date)
                             /\ x.due_date >= now - resp.request.months * MonthDays
                             /\ x.due_date < now /\ x.status # "paid"}
              IN /\ b.month = Month(r.due_date)
                 /\ r \in late
                 /\ b.overdue_count = Cardinality(late)
                 /\ b.overdue_amount = SumAmount(late)

\* C14: a cash-flow call is answered 200 with buckets of distinct months;
\* every invoice of the company due between now - window and now + 3 months
\* is in exactly one bucket, the bucket of its due-date month, and the
\* buckets hold no other invoice, whatever the status.
C14_BucketsPartitionRange ==
  CashflowAsked =>
    /\ resp.code = 200
    /\ LET b == resp.monthly_cashflow
           inRange == {r \in invoices :
                         /\ r.company_phone = resp.request.company
                         /\ r.due_date # NULL
                         /\ r.due_date >= now - resp.request.months * MonthDays
                         /\ r.due_date <= now + 3 * MonthDays}
       IN /\ \A i, j \in DOMAIN b : i # j => b[i].month # b[j].month
          /\ \A i, j \in DOMAIN b : i # j => b[i].ids \cap b[j].ids = {}
          /\ UNION {b[i].ids : i \in DOMAIN b} = {r.id : r \in inRange}
          /\ \A r \in inRange :
               \E i \in DOMAIN b : r.id \in b[i].ids /\ b[i].month = Month(r.due_date)

\* the urgency classes in their order along the list
UrgencyRank(u) ==
  IF u = "overdue" THEN 0
  ELSE IF u = "due_this_week" THEN 1
  ELSE IF u = "due_this_month" THEN 2
  ELSE 3

\* C20: a cash-flow call is answered 200 with an upcoming_payments list of
\* at most 20 entries, all of them invoices of the company with status
\* confirmed or pending and due_date >= today - 30, in ascending due_date
\* order, no qualifying invoice left out unless 20 earlier ones are listed,
\* each tagged by the urgency rule, the urgency classes never going back.
C20_UpcomingObligations ==
  CashflowAsked =>
    /\ resp.code = 200
    /\ LET up == resp.upcoming_payments
           fit == {r \in invoices :
                     /\ r.company_phone = resp.request.company
                     /\ r.status \in {"confirmed", "pending"}
                     /\ r.due_date # NULL
                     /\ r.due_date >= now - 30}
       IN /\ Len(up) <= 20
          /\ \A i \in DOMAIN up : \E r \in fit : r.id = up[i].id
          /\ \A i, j \in DOMAIN up : i # j => up[i].id # up[j].id
          /\ \A i, j \in DOMAIN up : i < j => up[i].due_date <= up[j].due_date
          /\ Len(up) = (IF Cardinality(fit) < 20 THEN Cardinality(fit) ELSE 20)
          /\ \A r \in fit :
               (\A i \in DOMAIN up : up[i].id # r.id) =>
                 \A i \in DOMAIN up : up[i].due_date <= r.due_date
          /\ \A i \in DOMAIN up :
               up[i].urgency =
                 (IF up[i].due_date < now THEN "overdue"
                  ELSE IF up[i].due_date <= now + 7 THEN "due_this_week"
                  ELSE IF up[i].due_date <= now + 30 THEN "due_this_month"
                  ELSE "future")
          /\ \A i, j \in DOMAIN up :
               i < j => UrgencyRank(up[i].urgency) <= UrgencyRank(up[j].urgency)

----------------------------------------------------------------------------
(* GET /api/analytics/predictions.  Amounts of money in the response are in *)
(* hundredths, percentages in hundredths of a percent; AVG(amount) *        *)
(* COUNT is taken as the sum.                                            *)

\* the same filter without company_phone = $1
DatedRowsAnyCompany(company, months) ==
  {r \in invoices : /\ r.invoice_date # NULL
                    /\ r.invoice_date >= now - months * MonthDays}

\* WHERE company_phone = $1 AND invoice_date >= NOW() - INTERVAL '<n> months'
DatedRows(company, months) ==
  {r \in invoices : /\ r.company_phone = company
                    /\ r.invoice_date # NULL
                    /\ r.invoice_date >= now - months * MonthDays}

\* the subquery of growth_rate: monthly totals of the last 6 months,
\* ORDER BY month DESC LIMIT 2
LastTwoMonths(company) ==
  LET rows == DatedRows(company, 6)
  IN Limit(ByMonthDesc({[month |-> m, monthly_total |-> MonthlyAmount(rows, m)] :
                        m \in {Month(r.invoice_date) : r \in rows}}), 2)

\* a growth rate taken from the older of the two months to the newer
MonthlyGrowthRateSigned(company) ==
  LET sub == LastTwoMonths(company)
  IN IF Len(sub) >= 2
       THEN RoundDiv((sub[1].monthly_total - sub[2].monthly_total) * 10000,
                     sub[2].monthly_total)
       ELSE 0

\* CASE WHEN COUNT >= 2
\*   THEN (MAX(monthly_total) - MIN(monthly_total)) / MIN(monthly_total) * 100
\*   ELSE 0 END
MonthlyGrowthRate(company) ==
  LET sub == LastTwoMonths(company)
      totals == {sub[i].monthly_total : i \in DOMAIN sub}
      max == CHOOSE x \in totals : \A y \in totals : y <= x
      min == CHOOSE x \in totals : \A y \in totals : x <= y
  IN IF Len(sub) >= 2 THEN RoundDiv((max - min) * 10000, min) ELSE 0

\* json_build_object('next_month_predicted_amount', ...): rt CROSS JOIN gr
PredictionsObject(company) ==
  LET recent == DatedRows(company, 3)
      count == Cardinality(recent)
  IN [next_month_predicted_amount |->
        IF recent = {} THEN NULL
        ELSE RoundDiv(SumAmount(recent) * 100 * (10000 + MonthlyGrowthRate(company)),
                      10000),
      next_month_predicted_invoices |-> (11 * count + 9) \div 10,
      confidence_level |-> IF count >= 10 THEN "High"
                           ELSE IF count >= 5 THEN "Medium" ELSE "Low",
      based_on_months |-> 3]

\* WITH monthly_avg ... GROUP BY EXTRACT(MONTH FROM invoice_date)
SeasonalPatterns(company) ==
  LET rows == DatedRows(company, 12)
      moy(r) == (Month(r.invoice_date) % 12) + 1
      of(m) == {r \in rows : moy(r) = m}
  IN {[month |-> m,
       historical_avg_amount |-> AvgAmount(of(m)),
       historical_avg_invoices |-> Cardinality(of(m))] : m \in {moy(r) : r \in rows}}

\* supplierPatterns.rows, in no order: GROUP BY supplier_name
\* HAVING COUNT >= 3; fewer than 10 suppliers exist
SupplierPatterns(company) ==
  LET rows == DatedRows(company, 12)
      of(n) == {r \in rows : r.supplier_name = n}
      last(n) == Max({r.invoice_date : r \in of(n)})
  IN {[supplier_name |-> n,
       frequency |-> Cardinality(of(n)),
       last_invoice |-> last(n),
       status |-> IF last(n) < now - 60 THEN "overdue"
                  ELSE IF last(n) < now - 30 THEN "expected_soon"
                  ELSE "recent"] :
      n \in {n \in {r.supplier_name : r \in rows} : Cardinality(of(n)) >= 3}}

\* the handler without its check of company_phone
PredictionsUnchecked(company, ok) ==
  LET request == [company |-> company, store_up |-> ok]
  IN /\ resp' =
          IF ~ok
            THEN [op |-> "predictions", code |-> 500, request |-> request,
                  queries |-> 1]
          ELSE [op |-> "predictions", code |-> 200, request |-> request,
                queries |-> 2,
                predictions |-> IF DatedRows(company, 12) = {} THEN {}
                                ELSE {PredictionsObject(company)},
                seasonal_patterns |-> SeasonalPatterns(company),
                supplier_patterns |-> SupplierPatterns(company)]
     /\ UNCHANGED <<invoices, suppliers, now, nextId, pc, req, tx, created>>

\* GET /api/analytics/predictions.  The first query has a row only if
\* monthly_avg has one; without it predictions is {} (here the empty set).
Predictions(company, ok) ==
  LET request == [company |-> company, store_up |-> ok]
  IN /\ resp' =
          IF company = ABSENT
            THEN [op |-> "predictions", code |-> 400, request |-> request,
                  queries |-> 0]
          ELSE IF ~ok
            THEN [op |-> "predictions", code |-> 500, request |-> request,
                  queries |-> 1]
          ELSE [op |-> "predictions", code |-> 200, request |-> request,
                queries |-> 2,
                predictions |-> IF DatedRows(company, 12) = {} THEN {}
                                ELSE {PredictionsObject(company)},
                seasonal_patterns |-> SeasonalPatterns(company),
                supplier_patterns |-> SupplierPatterns(company)]
     /\ UNCHANGED <<invoices, suppliers, now, nextId, pc, req, tx, created>>

\* SpecForecast: the forecast over the stores of SpecReport
NextForecast ==
  \E company \in Companies \cup {ABSENT}, ok \in BOOLEAN : Predictions(company, ok)

SpecForecast == ReportInit /\ [][NextForecast]_vars

\* the percent change from the second most recent month with invoices to
\* the most recent one, within the last 6 months; 0 with fewer than two
\* months or a base of 0
ForecastGrowthRate(company) ==
  LET rows == DatedRows(company, 6)
      months == {Month(r.invoice_date) : r \in rows}
      latest == Max(months)
      preceding == Max(months \ {latest})
  IN IF Cardinality(months) < 2 THEN 0
     ELSE IF MonthlyAmount(rows, preceding) = 0 THEN 0
     ELSE RoundDiv((MonthlyAmount(rows, latest) - MonthlyAmount(rows, preceding))
                     * 10000,
                   MonthlyAmount(rows, preceding))

\* C16: the forecast is made with the growth rate (latest - preceding) /
\* preceding x 100 of the two most recent months of the last 6: the predicted
\* amount is the trailing-3-month total raised by that rate, so it is below
\* that total when the latest month is below the preceding one.
C16_ForecastGrowthRate ==
  (resp.op = "predictions" /\ resp.code = 200) =>
    \A f \in resp.predictions :
      LET recent == DatedRows(resp.request.company, 3)
          rate == ForecastGrowthRate(resp.request.company)
      IN recent # {} =>
           /\ f.next_month_predicted_amount =
                RoundDiv(SumAmount(recent) * 100 * (10000 + rate), 10000)
           /\ rate < 0 => f.next_month_predicted_amount < SumAmount(recent) * 100

----------------------------------------------------------------------------
(* GET /api/suppliers/analytics/top.  The importance score is kept times    *)
(* 10000, so that 0.4 / 1000 of an amount is 4 and 0.3 of a count is 3000.  *)

\* a score whose volume term is the average amount and which has no
\* frequency term
ImportanceScorePerInvoice(sum, count, days) ==
  (sum * 4) \div count + (30 - (IF days < 30 THEN days ELSE 30)) * 3000

\* (SUM(i.amount) / 1000.0) * 0.4 + COUNT * 0.3 +
\* (30 - LEAST(30, EXTRACT(DAYS FROM (NOW() - MAX(i.invoice_date))))) * 0.3
ImportanceScore(sum, count, days) ==
  sum * 4 + count * 3000 + (30 - (IF days < 30 THEN days ELSE 30)) * 3000

\* switch (period): the months of dateFilter
RankingMonths(period) ==
  IF period = "1m" THEN 1
  ELSE IF period = "3m" THEN 3
  ELSE IF period = "6m" THEN 6
  ELSE 12

\* LEFT JOIN suppliers s ON i.supplier_name = s.name AND i.company_phone =
\* s.company_phone: the rows an invoice row of supplier n becomes, one when no
\* suppliers row matches
JoinedRows(n, company) ==
  IF SupplierRow(n, company) = {} THEN 1 ELSE Cardinality(SupplierRow(n, company))

\* ORDER BY importance_score DESC
RECURSIVE ByScoreDesc(_)
ByScoreDesc(S) ==
  IF S = {} THEN <<>>
  ELSE LET r == CHOOSE x \in S : \A y \in S : y.importance_score <= x.importance_score
       IN <<r>> \o ByScoreDesc(S \ {r})

\* result.rows: GROUP BY i.supplier_name (the joined suppliers row is one per
\* name and company) ORDER BY importance_score DESC LIMIT $2
RankedSuppliers(company, period, limit) ==
  LET rows == DatedRows(company, RankingMonths(period))
      of(n) == {r \in rows : r.supplier_name = n}
      last(n) == Max({r.invoice_date : r \in of(n)})
  IN Limit(ByScoreDesc({[supplier_name |-> n,
                         invoice_count |-> Cardinality(of(n)) * JoinedRows(n, company),
                         total_amount |-> SumAmount(of(n)) * JoinedRows(n, company),
                         avg_amount |-> AvgAmount(of(n)),
                         last_invoice_date |-> last(n),
                         recent_3m_amount |->
                           SumAmount({r \in of(n) : r.invoice_date >= now - 3 * MonthDays}),
                         older_amount |->
                           SumAmount({r \in of(n) : r.invoice_date < now - 3 * MonthDays}),
                         importance_score |->
                           ImportanceScore(SumAmount(of(n)) * JoinedRows(n, company),
                                           Cardinality(of(n)) * JoinedRows(n, company),
                                           now - last(n))] :
                        n \in {r.supplier_name : r \in rows}}), limit)

RECURSIVE SumOfTotals(_, _)
SumOfTotals(rows, i) ==
  IF i = 0 THEN 0 ELSE rows[i].total_amount + SumOfTotals(rows, i - 1)

\* GET /api/suppliers/analytics/top?company_phone=..&period=..&limit=..; not
\* sent, period is '12m' and limit is 10
SupplierRanking(company, sentPeriod, sentLimit, ok) ==
  LET period == IF sentPeriod = ABSENT THEN "12m" ELSE sentPeriod
      limit == IF sentLimit = NULL THEN 10 ELSE sentLimit
      request == [company |-> company, period |-> period, limit |-> limit,
                  store_up |-> ok]
      rows == RankedSuppliers(company, period, limit)
  IN /\ resp' =
          IF company = ABSENT
            THEN [op |-> "ranking", code |-> 400, request |-> request,
                  queries |-> 0]
          ELSE IF ~ok
            THEN [op |-> "ranking", code |-> 500, request |-> request,
                  queries |-> 1]
          ELSE [op |-> "ranking", code |-> 200, request |-> request,
                queries |-> 1,
                suppliers |-> rows,
                summary |-> [total_suppliers |-> Len(rows),
                             total_analyzed_amount |-> SumOfTotals(rows, Len(rows))]]
     /\ UNCHANGED <<invoices, suppliers, now, nextId, pc, req, tx, created>>

----------------------------------------------------------------------------
(* SpecRank: the supplier ranking over the stores of up to MaxRankInvoices  *)
(* invoices of company c1 that creation alone leaves at day ReportNow, each *)
(* created and dated RankAges days ago, oldest first.                       *)

MaxRankInvoices == 3
RankAges == {0, 7, 40}
RankPeriods == {"1m", ABSENT}
RankLimits == {1, NULL}

RankValues == [supplier_name : SupplierNames, amount : Amounts, age : RankAges]

RankRow(v, id) ==
  [NewInvoiceRow([company_phone |-> "c1", supplier_name |-> v.supplier_name,
                  amount |-> v.amount, status |-> "pending",
                  invoice_date |-> ReportNow - v.age, due_date |-> NULL,
                  category |-> ABSENT],
                 id, ReportNow - v.age)
   EXCEPT !.created_at = ReportNow - v.age]

RankHistories ==
  UNION {{h \in [1..n -> RankValues] :
            \A i \in 1..(n - 1) : h[i].age >= h[i + 1].age} :
         n \in 0..MaxRankInvoices}

RankInit ==
  \E h \in RankHistories :
    LET rows == {RankRow(h[i], i) : i \in 1..Len(h)}
        of(k) == {r \in rows : r.supplier_name = k[1] /\ r.company_phone = k[2]}
        newest(k) == CHOOSE r \in of(k) : \A x \in of(k) : x.id <= r.id
    IN /\ invoices = rows
       /\ created = [k \in Pairs |->
                       [n |-> Cardinality(of(k)), sum |-> SumAmount(of(k))]]
       /\ suppliers =
            {[name |-> k[1], company_phone |-> k[2],
              total_invoices |-> Cardinality(of(k)),
              total_amount |-> SumAmount(of(k)),
              last_invoice_date |-> newest(k).invoice_date] :
             k \in {k \in Pairs : of(k) # {}}}
       /\ nextId = Len(h) + 1
       /\ now = ReportNow
       /\ pc = [p \in Procs |-> "idle"]
       /\ req = [p \in Procs |-> NoReq]
       /\ tx = [p \in Procs |-> NoTx]
       /\ resp = NoResp

NextRank ==
  \E company \in {"c1", ABSENT}, period \in RankPeriods, limit \in RankLimits,
     ok \in BOOLEAN : SupplierRanking(company, period, limit, ok)

SpecRank == RankInit /\ [][NextRank]_vars

\* C15: of two ranked suppliers with the same days since the last invoice,
\* one with the same invoice count and at least the total amount of the
\* other, or the same total amount and at least the invoice count, has at
\* least the other's score; and a supplier with a higher score is listed
\* before one with a lower score.
C15_ScoreMonotone ==
  (resp.op = "ranking" /\ resp.code = 200) =>
    \A i, j \in DOMAIN resp.suppliers :
      LET a == resp.suppliers[i]
          b == resp.suppliers[j]
      IN /\ (/\ a.last_invoice_date = b.last_invoice_date
             /\ \/ (a.invoice_count = b.invoice_count
                     /\ a.total_amount >= b.total_amount)
                \/ (a.total_amount = b.total_amount
                     /\ a.invoice_count >= b.invoice_count))
            => a.importance_score >= b.importance_score
         /\ a.importance_score > b.importance_score => i < j

\* two suppliers last invoiced the same day with the same total, the one
\* with two invoices listed before the one with a single invoice
C15_Witness ==
  /\ resp.op = "ranking" /\ resp.code = 200
  /\ Len(resp.suppliers) = 2
  /\ resp.suppliers[1].last_invoice_date = resp.suppliers[2].last_invoice_date
  /\ resp.suppliers[1].total_amount = 100
  /\ resp.suppliers[2].total_amount = 100
  /\ resp.suppliers[1].invoice_count = 2
  /\ resp.suppliers[2].invoice_count = 1
  /\ resp.suppliers[1].importance_score > resp.suppliers[2].importance_score

----------------------------------------------------------------------------
(* SpecQueries: the five company queries next to invoice creation, with and *)
(* without the company identifier.                                          *)

QueryCompanies == {"c1", ABSENT}

NextQueries ==
  \/ \E in \in CreateInputs(EditCreates) : PostInvoice(in[1], in[2])
  \/ \E company \in QueryCompanies, sent \in {<<"1", "y">>, UNDEFINED}, ok \in BOOLEAN :
        Dashboard(company, sent, ok)
  \/ \E company \in QueryCompanies, ok \in BOOLEAN : Trends(company, ok)
  \/ \E company \in QueryCompanies, ok \in BOOLEAN : Predictions(company, ok)
  \/ \E company \in QueryCompanies, ok \in BOOLEAN : Cashflow(company, NULL, ok)
  \/ \E company \in QueryCompanies, ok \in BOOLEAN :
        SupplierRanking(company, ABSENT, NULL, ok)

SpecQueries == Init /\ [][NextQueries]_vars

CompanyQueries == {"dashboard", "trends", "predictions", "cashflow", "ranking"}

\* C12: a dashboard, trends, predictions, cash-flow or supplier-ranking call
\* without a company identifier is answered 400, whether the store is up or
\* down, after no query to the store, and changes no row; a call that names a
\* company is never answered 400.
C12_MissingCompanyRejected ==
  [][ resp'.op \in CompanyQueries =>
        /\ resp'.request.company = ABSENT <=> resp'.code = 400
        /\ resp'.code = 400 =>
             /\ resp'.queries = 0
             /\ invoices' = invoices /\ suppliers' = suppliers
    ]_vars

\* the supplier ranking refused a call without company while the store,
\* holding an invoice, was down
C12_Witness ==
  /\ resp.op = "ranking" /\ resp.code = 400
  /\ resp.request.company = ABSENT
  /\ ~resp.request.store_up
  /\ invoices # {}

----------------------------------------------------------------------------
(* Validation and failure answers: claims *)

\* C17: a create request refused for validation is answered with one entry
\* for every invalid field of its body, in schema order.
C17_EveryInvalidFieldListed ==
  (resp.op = "create" /\ resp.code = 400) =>
    resp.details = InvoiceSchemaErrors(resp.body)

\* the part of C17 the handler keeps: the refusal names an invalid field of
\* the body, and the step that refuses writes nothing
C17_RefusalWritesNothing ==
  [][ (resp'.op = "create" /\ resp'.code = 400) =>
        /\ resp'.details # <<>>
        /\ \A k \in DOMAIN resp'.details :
             \E e \in DOMAIN InvoiceSchemaErrors(resp'.body) :
               InvoiceSchemaErrors(resp'.body)[e] = resp'.details[k]
        /\ invoices' = invoices /\ suppliers' = suppliers /\ nextId' = nextId
    ]_vars

----------------------------------------------------------------------------
(* SpecConc: two create requests at once, one await at a time each.  The    *)
(* requests are valid; most name the pair (s1, c1).                         *)

ConcCreates ==
  {b \in CounterCreates :
     /\ invoiceSchema(b) = <<>>
     /\ b.company_phone = "c1"
     /\ b.supplier_name = "s2" => b.amount = 50}

NextConc == \E p \in Procs : CreateInvoice(p, ConcCreates)

SpecConc == Init /\ [][NextConc]_vars

\* C18: under every interleaving of create requests each pair has at most
\* one Supplier row; its total_invoices and total_amount are the number and
\* the sum of the committed creations of the pair, which are the invoice
\* rows of the pair in the store; a pair with a committed creation has a row.
C18_ConcurrentCreatesCounted ==
  \A k \in Pairs :
    LET rows == SupplierRow(k[1], k[2])
        made == {r \in invoices : r.supplier_name = k[1] /\ r.company_phone = k[2]}
    IN /\ Cardinality(rows) <= 1
       /\ made # {} => rows # {}
       /\ created[k].n = Cardinality(made)
       /\ created[k].sum = SumAmount(made)
       /\ \A s \in rows : /\ s.total_invoices = Cardinality(made)
                           /\ s.total_amount = SumAmount(made)

\* two requests for a pair without a row ran at once: the one that inserted
\* its invoice second committed first, and the other, its transaction still
\* open, has upserted the pair's row to count both
C18_Witness ==
  \E p, q \in Procs :
    /\ p # q
    /\ pc[p] = "release" /\ tx[p].state = "committed"
    /\ pc[q] = "commit" /\ tx[q].state = "open"
    /\ req[p].supplier_name = req[q].supplier_name
    /\ \E a \in tx[p].inv, b \in tx[q].inv : b.id < a.id
    /\ \E s \in tx[q].sup : s.total_invoices = 2 /\ s.total_amount = 150
    /\ \E s \in suppliers : s.total_invoices = 1

----------------------------------------------------------------------------
(* POST /api/ocr/process-url and GET /api/health/db: the handlers whose     *)
(* collaborators (the image host, sharp, the store) can fail.  An error is  *)
(* its message, error.message.                                              *)

FetchRefused == "connect ECONNREFUSED 10.0.0.5:443"
FetchTimeout == "timeout of 10000ms exceeded"
NotAnImage == "Input buffer contains unsupported image format"
StoreDown == "connect ECONNREFUSED 127.0.0.1:5432"

\* what axios.get and sharp(...).metadata() can throw
ImageErrors == {FetchRefused, FetchTimeout, NotAnImage}
ErrorMessages == ImageErrors \cup {StoreDown}

ImageUrls == {"u1", ABSENT}
Phones == {"c1", ABSENT}

\* POST /api/ocr/process-url; thrown is the error of the download or of the
\* image check, ABSENT when both succeed.  A timeout of axios has
\* error.code ECONNABORTED.
ProcessUrl(image_url, phone, thrown) ==
  /\ resp' =
       IF image_url = ABSENT \/ phone = ABSENT
         THEN [op |-> "ocr", code |-> 400]
       ELSE IF thrown = ABSENT
         THEN [op |-> "ocr", code |-> 200]
       ELSE IF thrown = FetchTimeout
         THEN [op |-> "ocr", code |-> 408,
               error |-> "Timeout descargando imagen",
               details |-> "La descarga de la imagen tardo demasiado"]
       ELSE [op |-> "ocr", code |-> 500,
             error |-> "Error procesando imagen desde URL",
             details |-> thrown]
  /\ UNCHANGED <<invoices, suppliers, now, nextId, pc, req, tx, created>>

\* GET /api/health/db: testConnection() swallows its error, the first
\* query() does not
DbHealth(ok) ==
  /\ resp' =
       IF ok THEN [op |-> "health", code |-> 200, status |-> "healthy"]
       ELSE [op |-> "health", code |-> 503,
             error |-> "Database health check failed",
             details |-> StoreDown]
  /\ UNCHANGED <<invoices, suppliers, now, nextId, pc, req, tx, created>>

\* SpecFail: creation, deletion and two queries next to the two handlers
\* above, each with its failures
NextFail ==
  \/ \E in \in CreateInputs(EditCreates) : PostInvoice(in[1], in[2])
  \/ \E id \in Ids, ok \in BOOLEAN : DeleteInvoice(id, ok)
  \/ \E company \in QueryCompanies, ok \in BOOLEAN : Trends(company, ok)
  \/ \E company \in QueryCompanies, ok \in BOOLEAN : Cashflow(company, NULL, ok)
  \/ \E image_url \in ImageUrls, phone \in Phones, thrown \in ImageErrors \cup {ABSENT} :
        ProcessUrl(image_url, phone, thrown)
  \/ \E ok \in BOOLEAN : DbHealth(ok)

SpecFail == Init /\ [][NextFail]_vars

FailureCodes == {408, 500, 503}

\* C19: an answer of failure (408, 500, 503) carries no message of the
\* underlying error, and the step that answers it leaves invoices and
\* suppliers as they were.
C19_GenericFailure ==
  [][ resp'.code \in FailureCodes =>
        /\ "details" \in DOMAIN resp' => resp'.details \notin ErrorMessages
        /\ invoices' = invoices /\ suppliers' = suppliers
    ]_vars

\* the part of C19 the handlers keep: no failure leaves a write behind, and
\* the failures of the invoice routes and of the company queries carry no
\* detail
C19_NoPartialWrite ==
  [][ resp'.code \in FailureCodes =>
        /\ invoices' = invoices /\ suppliers' = suppliers
        /\ resp'.op \notin {"ocr", "health"} => "details" \notin DOMAIN resp'
    ]_vars

----------------------------------------------------------------------------
(* SpecTenant: two companies writing to one store, company c1 querying.     *)
(* The requests are valid and the store is up.                              *)

TenantCreates ==
  {b \in CreateBodies : /\ invoiceSchema(b) = <<>>
                        /\ b.supplier_name = "s1" /\ b.status = ABSENT
                        /\ b.amount = (IF b.company_phone = "c1" THEN 100 ELSE 50)
                        /\ b.invoice_date = 0
                        /\ b.category = (IF b.company_phone = "c1" THEN "k1" ELSE ABSENT)}

TenantPeriods == {<<"1", "y">>, <<"2", "y">>}

NextTenant ==
  \/ \E body \in TenantCreates : PostInvoice(body, "none")
  \/ \E id \in Ids : DeleteInvoice(id, TRUE)
  \/ \E id \in Ids : ChangeStatus(id, "paid", TRUE)
  \/ SaveSupplier("s2", "c2", TRUE)
  \/ Dashboard("c1", <<"1", "y">>, TRUE)
  \/ Trends("c1", TRUE)
  \/ Predictions("c1", TRUE)
  \/ SupplierRanking("c1", ABSENT, NULL, TRUE)

SpecTenant == Init /\ [][NextTenant]_vars

\* the rows of a company in the two tables
CompanyRows(company) ==
  <<{r \in invoices : r.company_phone = company},
    {t \in suppliers : t.company_phone = company}>>

\* what the four queries compute for a company from the store
CompanyResults(company) ==
  <<[period \in TenantPeriods |->
       <<DashboardMetrics(company, period), TopCategories(company, period),
         TopSuppliers(company, period)>>],
    MonthlyTrend(company),
    GrowthAnalysis(company),
    IF DatedRows(company, 12) = {} THEN {} ELSE {PredictionsObject(company)},
    SeasonalPatterns(company),
    SupplierPatterns(company),
    [period \in RankPeriods \ {ABSENT}, limit \in {1, 10} |->
       RankedSuppliers(company, period, limit)]>>

----------------------------------------------------------------------------
(* The life of an invoice: claims about confirmed_at *)

\* C22: a creation, an update, a deletion and a change of status to pending
\* or paid leave confirmed_at of every invoice that stays as it was, and a
\* new invoice has none; a change of status to confirmed answered 200 leaves
\* an invoice confirmed at the time of the request, and no invoice without
\* confirmed_at is changed by it in another way.
C22_ConfirmedAtOnlyOnConfirm ==
  [][ now' = now =>
        /\ (\/ resp'.op \in {"create", "update", "delete"}
            \/ (resp'.op = "status" /\ resp'.status # "confirmed"))
           => /\ \A r \in invoices : \A t \in invoices' :
                   t.id = r.id => t.confirmed_at = r.confirmed_at
              /\ \A t \in invoices' :
                   (\A r \in invoices : r.id # t.id) => t.confirmed_at = NULL
        /\ (resp'.op = "status" /\ resp'.status = "confirmed" /\ resp'.code = 200)
           => /\ \E t \in invoices' : t.status = "confirmed" /\ t.confirmed_at = now
              /\ \A r \in invoices : \A t \in invoices' :
                   (t.id = r.id /\ r.confirmed_at = NULL /\ t # r)
                     => t.status = "confirmed" /\ t.confirmed_at = now
    ]_vars

\* an invoice confirmed on day 0 was set back to pending on day 1 and kept
\* its confirmed_at
C22_Witness ==
  /\ resp = [op |-> "status", code |-> 200, status |-> "pending"]
  /\ now = 1
  /\ \E r \in invoices :
       r.status = "pending" /\ r.confirmed_at = 0 /\ r.updated_at = 1

\* C26: every invoice whose status is confirmed has a confirmed_at.
C26_ConfirmedHasConfirmedAt ==
  \A r \in invoices : r.status = "confirmed" => r.confirmed_at # NULL

----------------------------------------------------------------------------
(* SpecTrends: the trends query over the stores of up to MaxTrendInvoices   *)
(* invoices of supplier s1 that creation alone leaves at day ReportNow,     *)
(* each created and dated TrendAges days ago, oldest first.  The window of  *)
(* 6 months starts 180 days ago, inside a calendar month.                   *)

MaxTrendInvoices == 2
TrendAges == {0, 31, 60, 175, 183}
TrendPeriods == {"12m", "6m", ABSENT}

TrendValues ==
  {v \in [company_phone : Companies, amount : Amounts, age : TrendAges] :
     v.company_phone = "c2" => (v.amount = 50 /\ v.age = 0)}

TrendHistories ==
  UNION {{h \in [1..n -> TrendValues] :
            \A i \in 1..(n - 1) : h[i].age >= h[i + 1].age} :
         n \in 0..MaxTrendInvoices}

TrendInit ==
  \E h \in TrendHistories :
    LET rows == {ReportRow(h[i], i) : i \in 1..Len(h)}
        of(k) == {r \in rows : r.supplier_name = k[1] /\ r.company_phone = k[2]}
        newest(k) == CHOOSE r \in of(k) : \A x \in of(k) : x.id <= r.id
    IN /\ invoices = rows
       /\ created = [k \in Pairs |->
                       [n |-> Cardinality(of(k)), sum |-> SumAmount(of(k))]]
       /\ suppliers =
            {[name |-> k[1], company_phone |-> k[2],
              total_invoices |-> Cardinality(of(k)),
              total_amount |-> SumAmount(of(k)),
              last_invoice_date |-> newest(k).invoice_date] :
             k \in {k \in Pairs : of(k) # {}}}
       /\ nextId = Len(h) + 1
       /\ now = ReportNow
       /\ pc = [p \in Procs |-> "idle"]
       /\ req = [p \in Procs |-> NoReq]
       /\ tx = [p \in Procs |-> NoTx]
       /\ resp = NoResp

NextTrends ==
  \E company \in Companies \cup {ABSENT}, sent \in TrendPeriods, ok \in BOOLEAN :
    TrendsFor(company, sent, ok)

SpecTrends == TrendInit /\ [][NextTrends]_vars

\* the invoices of the growth analysis dated in calendar month m
MonthRows(company, m) ==
  {r \in GrowthRows(company) : Month(r.invoice_date) = m}

\* C23: every row of the growth analysis, for calendar month M, has as
\* previous_month the total of month M - 1 (nothing or 0 when that month has
\* no invoice) and as growth_rate the percent change from that total.
C23_PreviousCalendarMonth ==
  (resp.op = "trends" /\ resp.code = 200) =>
    \A i \in DOMAIN resp.growth_analysis :
      LET g == resp.growth_analysis[i]
          before == MonthRows(resp.request.company, g.month - 1)
      IN /\ g.previous_month =
              (IF before = {} /\ g.previous_month = NULL THEN NULL
               ELSE SumAmount(before))
         /\ g.growth_rate = PercentChange(g.monthly_amount, SumAmount(before))

\* the part of C23 the query keeps: a row whose month before has invoices
\* is paired with that month's total
C23_PairedWhenNoGap ==
  (resp.op = "trends" /\ resp.code = 200) =>
    \A i \in DOMAIN resp.growth_analysis :
      LET g == resp.growth_analysis[i]
          before == MonthRows(resp.request.company, g.month - 1)
      IN before # {} =>
           /\ g.previous_month = SumAmount(before)
           /\ g.growth_rate = PercentChange(g.monthly_amount, SumAmount(before))

\* C24: in the answer to a trends call, a calendar month that is both in
\* monthly_trends and in growth_analysis has the same total in both.
C24_TrendViewsAgree ==
  (resp.op = "trends" /\ resp.code = 200) =>
    \A i \in DOMAIN resp.monthly_trends : \A j \in DOMAIN resp.growth_analysis :
      resp.monthly_trends[i].month = resp.growth_analysis[j].month =>
        resp.monthly_trends[i].total_amount = resp.growth_analysis[j].monthly_amount

\* the part of C24 the handler keeps: the two views agree when the period
\* is 12 months
C24_AgreeOverTwelveMonths ==
  (resp.op = "trends" /\ resp.code = 200 /\ resp.request.period = "12m") =>
    \A i \in DOMAIN resp.monthly_trends : \A j \in DOMAIN resp.growth_analysis :
      resp.monthly_trends[i].month = resp.growth_analysis[j].month =>
        resp.monthly_trends[i].total_amount = resp.growth_analysis[j].monthly_amount

----------------------------------------------------------------------------
(* SpecConfidence: the forecast for company c1 over stores that hold up to  *)
(* MaxRecentInvoices invoices of 5 dated today and possibly one invoice     *)
(* dated ConfidenceOlder days ago: outside the last 3 months, inside or     *)
(* outside the last 12.                                                     *)

MaxRecentInvoices == 11
ConfidenceOlder == {100, 361}

ConfidenceStores ==
  [recent : 0..MaxRecentInvoices, older : ConfidenceOlder \cup {NULL}]

ConfidenceInit ==
  \E c \in ConfidenceStores :
    LET old == IF c.older = NULL THEN {}
               ELSE {ReportRow([company_phone |-> "c1", amount |-> 10,
                                age |-> c.older], 1)}
        first == Cardinality(old)
        rows == old \cup
                {ReportRow([company_phone |-> "c1", amount |-> 5, age |-> 0],
                           first + i) : i \in 1..c.recent}
        k == <<"s1", "c1">>
    IN /\ invoices = rows
       /\ created = [q \in Pairs |->
                       IF q = k THEN [n |-> Cardinality(rows), sum |-> SumAmount(rows)]
                       ELSE [n |-> 0, sum |-> 0]]
       /\ suppliers =
            IF rows = {} THEN {}
            ELSE {[name |-> "s1", company_phone |-> "c1",
                   total_invoices |-> Cardinality(rows),
                   total_amount |-> SumAmount(rows),
                   last_invoice_date |->
                     IF c.recent > 0 THEN ReportNow ELSE ReportNow - c.older]}
       /\ nextId = Cardinality(rows) + 1
       /\ now = ReportNow
       /\ pc = [p \in Procs |-> "idle"]
       /\ req = [p \in Procs |-> NoReq]
       /\ tx = [p \in Procs |-> NoTx]
       /\ resp = NoResp

SpecConfidence == ConfidenceInit /\ [][NextForecast]_vars

\* ceiling(1.1 x n)
CeilingOfTenthMore(n) == CHOOSE k \in 0..(2 * n + 1) : 10 * (k - 1) < 11 * n /\ 11 * n <= 10 * k

\* what C25 says of a forecast f made from count invoices of the last 3
\* months, the defined amount left aside
ConfidenceAndCount(f, count) ==
  /\ f.confidence_level = "High" <=> count >= 10
  /\ f.confidence_level = "Medium" <=> (count >= 5 /\ count <= 9)
  /\ f.confidence_level = "Low" <=> count < 5
  /\ f.next_month_predicted_invoices = CeilingOfTenthMore(count)

\* C25: for a company that has invoices the forecast carries a confidence
\* label of High from 10 invoices in the last 3 months, Medium from 5 to 9,
\* Low below, a predicted count of ceiling(1.1 x that count), and a predicted
\* amount that is a number, also when the count is 0.
C25_ConfidenceAndCount ==
  (/\ resp.op = "predictions" /\ resp.code = 200
   /\ \E r \in invoices : r.company_phone = resp.request.company)
  => /\ resp.predictions # {}
     /\ \A f \in resp.predictions :
          /\ ConfidenceAndCount(f, Cardinality(DatedRows(resp.request.company, 3)))
          /\ f.next_month_predicted_amount # NULL

\* the part of C25 the query keeps: a forecast, when there is one, has the
\* label and the count of the claim, and its amount is a number when the
\* last 3 months have an invoice
C25_LabelAndCountWhenAnswered ==
  (resp.op = "predictions" /\ resp.code = 200) =>
    \A f \in resp.predictions :
      /\ ConfidenceAndCount(f, Cardinality(DatedRows(resp.request.company, 3)))
      /\ DatedRows(resp.request.company, 3) # {} => f.next_month_predicted_amount # NULL

----------------------------------------------------------------------------
(* SpecDates: invoices created with and without an invoice date while the   *)
(* clock runs; nothing is edited or deleted.                                *)

DateCreates ==
  {b \in CreateBodies : /\ b.status = ABSENT /\ b.category = ABSENT
                         /\ b.amount \in {50, 0}}

NextDates ==
  \/ Tick
  \/ \E in \in CreateInputs(DateCreates) : PostInvoice(in[1], in[2])

SpecDates == Init /\ [][NextDates]_vars

\* the invoices created for a supplier of a company
CreatedFor(name, company) ==
  {r \in invoices : r.supplier_name = name /\ r.company_phone = company}

\* the date of an invoice: the one sent, else the day it was created
\* (value.invoice_date || new Date())
DateOf(r) == IF r.invoice_date # NULL THEN r.invoice_date ELSE r.created_at

\* C27: a supplier row's last_invoice_date is the latest date among the
\* invoices created for its (name, company) pair: an invoice dated earlier
\* than the others does not move it back.
C27_LastInvoiceDateIsLatest ==
  \A s \in suppliers :
    CreatedFor(s.name, s.company_phone) # {} =>
      s.last_invoice_date =
        Max({DateOf(r) : r \in CreatedFor(s.name, s.company_phone)})

\* the part of C27 the upsert keeps: last_invoice_date is the date of the
\* invoice created last for the pair
C27_DateOfLastCreated ==
  \A s \in suppliers :
    LET rows == CreatedFor(s.name, s.company_phone)
    IN rows # {} =>
         s.last_invoice_date =
           DateOf(CHOOSE r \in rows : \A q \in rows : q.id <= r.id)

----------------------------------------------------------------------------
(* SpecStatus: invoices of one company created, edited and moved between    *)
(* statuses, with and without a due date, the clock running, and the        *)
(* dashboard of the last year read in between.                              *)

StatusDueDates == {NULL, 0}

StatusCreates ==
  {[b EXCEPT !.due_date = d] :
     b \in {c \in LifeCreates : c.status \in {ABSENT, "confirmed"}},
     d \in StatusDueDates}
StatusUpdates == {b \in LifeUpdates : b.status \notin {"confirmed", "paid"}}

NextStatus ==
  \/ Tick
  \/ \E body \in StatusCreates : PostInvoice(body, "none")
  \/ \E body \in StatusUpdates, id \in Ids : UpdateInvoice(id, body, TRUE)
  \/ \E id \in Ids, status \in {"paid"} \cup BadStatuses :
        ChangeStatus(id, status, TRUE)
  \/ Dashboard("c1", <<"1", "y">>, TRUE)

SpecStatus == Init /\ [][NextStatus]_vars

\* C28: in a dashboard result the counts by status add up to the total,
\* pending_invoices + confirmed_invoices + paid_invoices = total_invoices,
\* and overdue_invoices <= pending_invoices + confirmed_invoices.
C28_StatusCountsPartition ==
  (resp.op = "dashboard" /\ resp.code = 200) =>
    LET m == resp.metrics
    IN /\ m.pending_invoices + m.confirmed_invoices + m.paid_invoices
            = m.total_invoices
       /\ m.overdue_invoices <= m.pending_invoices + m.confirmed_invoices

\* a dashboard of two invoices past their due date, one of them paid
C28_Witness ==
  /\ resp.op = "dashboard" /\ resp.code = 200
  /\ resp.metrics.total_invoices = 2
  /\ resp.metrics.paid_invoices = 1
  /\ resp.metrics.overdue_invoices = 1
  /\ \A r \in invoices : r.due_date # NULL /\ r.due_date < now

----------------------------------------------------------------------------
(* SpecRecency: the supplier ranking over stores of up to                   *)
(* MaxRecencyInvoices invoices of company c1 at day ReportNow, dated        *)
(* RecencyAges days ago; a negative age is an invoice dated after today,    *)
(* which invoiceSchema lets through.                                        *)

MaxRecencyInvoices == 2
RecencyAges == {-5, 0, 7, 40}

RecencyValues ==
  [supplier_name : SupplierNames, amount : Amounts, age : RecencyAges]

RecencyHistories ==
  UNION {{h \in [1..n -> RecencyValues] :
            \A i \in 1..(n - 1) : h[i].age >= h[i + 1].age} :
         n \in 0..MaxRecencyInvoices}

RecencyInit ==
  \E h \in RecencyHistories :
    LET rows == {[RankRow(h[i], i) EXCEPT
                    !.created_at = ReportNow - Max({0, h[i].age})] :
                 i \in 1..Len(h)}
        of(k) == {r \in rows : r.supplier_name = k[1] /\ r.company_phone = k[2]}
        newest(k) == CHOOSE r \in of(k) : \A x \in of(k) : x.id <= r.id
    IN /\ invoices = rows
       /\ created = [k \in Pairs |->
                       [n |-> Cardinality(of(k)), sum |-> SumAmount(of(k))]]
       /\ suppliers =
            {[name |-> k[1], company_phone |-> k[2],
              total_invoices |-> Cardinality(of(k)),
              total_amount |-> SumAmount(of(k)),
              last_invoice_date |-> newest(k).invoice_date] :
             k \in {k \in Pairs : of(k) # {}}}
       /\ nextId = Len(h) + 1
       /\ now = ReportNow
       /\ pc = [p \in Procs |-> "idle"]
       /\ req = [p \in Procs |-> NoReq]
       /\ tx = [p \in Procs |-> NoTx]
       /\ resp = NoResp

SpecRecency == RecencyInit /\ [][NextRank]_vars

\* the recency component of a ranked supplier, 30 - LEAST(30, days): what is
\* left of its score, in 0.3 points, without the volume and frequency terms
RecencyOf(row) ==
  (row.importance_score - row.total_amount * 4 - row.invoice_count * 3000)
    \div 3000

\* C29: the recency component of the importance score lies between 0 and 30
\* for every ranked supplier, also when its latest invoice is dated after
\* the time of the query, so recency adds at most 9 points to the score.
C29_RecencyBounded ==
  (resp.op = "ranking" /\ resp.code = 200) =>
    \A i \in DOMAIN resp.suppliers :
      RecencyOf(resp.suppliers[i]) \in 0..30

\* the part of C29 the score keeps: the component is never negative, and it
\* is at most 30 for a supplier whose latest invoice is not dated after the
\* time of the query
C29_RecencyBoundedInThePast ==
  (resp.op = "ranking" /\ resp.code = 200) =>
    \A i \in DOMAIN resp.suppliers :
      /\ RecencyOf(resp.suppliers[i]) >= 0
      /\ resp.suppliers[i].last_invoice_date <= now
            => RecencyOf(resp.suppliers[i]) <= 30

----------------------------------------------------------------------------
(* The transaction helper, seen from the position of each request in it.    *)

\* the request holds a client of the pool: pool.connect() has answered and
\* client.release() has not run
HoldsClient(p) ==
  pc[p] \in {"begin", "insert", "upsert", "commit", "rollback", "release"}

\* the await that follows when the one at position at succeeds
Following(at) ==
  IF at = "begin" THEN "insert"
  ELSE IF at = "insert" THEN "upsert"
  ELSE IF at = "upsert" THEN "commit"
  ELSE "release"

\* C30: a run of the transaction helper that obtained a client gives it back
\* by client.release(), once, whichever statement fails (BEGIN, one of the
\* callback, COMMIT or ROLLBACK); ROLLBACK follows every failure of the
\* callback or of COMMIT, and COMMIT is only issued when the callback
\* succeeded.
C30_ClientReleasedOnEveryPath ==
  [][\A p \in Procs :
       /\ (HoldsClient(p) /\ ~HoldsClient(p)') => pc[p] = "release"
       /\ (pc[p] = "release" /\ pc'[p] # "release") => pc'[p] = "idle"
       /\ (/\ pc[p] \in {"begin", "insert", "upsert", "commit"}
           /\ pc'[p] \notin {pc[p], Following(pc[p])}) => pc'[p] = "rollback"
       /\ (pc[p] = "rollback" /\ pc'[p] # "rollback") =>
            (pc'[p] = "release" /\ tx'[p].state = "aborted")
       /\ (pc'[p] = "commit" /\ pc[p] # "commit") =>
            (pc[p] = "upsert" /\ tx'[p].inv # {} /\ tx'[p].sup # {})
       /\ (tx'[p].state = "committed" /\ tx[p].state # "committed") =>
            pc[p] = "commit"
    ]_vars

\* a request whose COMMIT failed, rolled back and about to release its client
C30_Witness ==
  \E p \in Procs :
    /\ pc[p] = "release"
    /\ tx[p].state = "aborted"
    /\ tx[p].inv # {} /\ tx[p].sup # {}
====
